---- MODULE Spec2Model ----
(***************************************************************************)
(* Front Door Support Agent: the routing and escalation decision engine    *)
(* (RouterAgent), the resolution decision engine (ActionAgent), the intent *)
(* normalizer of the hosted classifier (AzureOpenAILLMService) and the     *)
(* submit_query pipeline that drives them over the in-memory stores.       *)
(*                                                                         *)
(* Confidence and relevance scores are two-decimal reals in [0,1]; they    *)
(* are kept as integer hundredths (0.70 is 70).                            *)
(***************************************************************************)
EXTENDS Integers, Sequences, FiniteSets, TLC

(***************************************************************************)
(* Enumerations (app/models/enums.py)                                      *)
(***************************************************************************)
Department ==
    {"IT", "HR", "REGISTRAR", "FINANCIAL_AID", "FACILITIES",
     "STUDENT_AFFAIRS", "CAMPUS_SAFETY", "ESCALATE_TO_HUMAN"}

Priority == {"LOW", "MEDIUM", "HIGH", "URGENT"}

Sentiment == {"NEUTRAL", "FRUSTRATED", "URGENT", "SATISFIED"}

ActionStatus ==
    {"created", "escalated", "pending_clarification", "kb_only", "error"}

EscalationReason ==
    {"confidence_too_low", "policy_keyword_detected", "sensitive_topic",
     "multi_department", "user_requested_human", "max_clarifications_exceeded"}

IntentCategory ==
    {"ACCOUNT_ACCESS", "ACADEMIC_RECORDS", "FINANCIAL", "FACILITIES",
     "ENROLLMENT", "STUDENT_SERVICES", "POLICY_EXCEPTION", "GENERAL_INQUIRY",
     "STATUS_CHECK", "HUMAN_REQUEST"}

\* Python's None.
None == "None"

(***************************************************************************)
(* Settings (app/core/config.py), default configuration                    *)
(***************************************************************************)
confidence_threshold == 70
max_clarification_attempts == 3
max_conversation_turns == 50
sla_urgent_hours == 1
sla_high_hours == 4
sla_medium_hours == 24
sla_low_hours == 72

(***************************************************************************)
(* RouterAgent (app/agents/router_agent.py)                                *)
(***************************************************************************)
CATEGORY_TO_DEPARTMENT ==
    [c \in IntentCategory |->
        CASE c = "ACCOUNT_ACCESS"   -> "IT"
          [] c = "ACADEMIC_RECORDS" -> "REGISTRAR"
          [] c = "FINANCIAL"        -> "FINANCIAL_AID"
          [] c = "FACILITIES"       -> "FACILITIES"
          [] c = "ENROLLMENT"       -> "REGISTRAR"
          [] c = "STUDENT_SERVICES" -> "STUDENT_AFFAIRS"
          [] c = "POLICY_EXCEPTION" -> "STUDENT_AFFAIRS"
          [] c = "GENERAL_INQUIRY"  -> "IT"
          [] c = "STATUS_CHECK"     -> "IT"
          [] c = "HUMAN_REQUEST"    -> "ESCALATE_TO_HUMAN"]

ESCALATION_INTENTS ==
    {"grade_appeal", "withdrawal_request", "waiver_request", "refund_request",
     "request_human", "speak_to_person"}

\* Settings(): the configuration object, with its defaults.
Settings ==
    [confidence_threshold |-> confidence_threshold,
     max_clarification_attempts |-> max_clarification_attempts,
     sla_urgent_hours |-> sla_urgent_hours,
     sla_high_hours |-> sla_high_hours,
     sla_medium_hours |-> sla_medium_hours,
     sla_low_hours |-> sla_low_hours]

\* RouterAgent.__init__: what a method reaches through self, the settings it
\* was given and the two tables of the class.
RouterAgent(settings) ==
    [_settings |-> settings,
     CATEGORY_TO_DEPARTMENT |-> CATEGORY_TO_DEPARTMENT,
     ESCALATION_INTENTS |-> ESCALATION_INTENTS]

\* router_agent = RouterAgent(settings) (submit_query, line 109)
router_agent == RouterAgent(Settings)

\* _determine_priority with the confidence rule ahead of the sentiment rules.
_determine_priority_confidence_first(self, query_result) ==
    IF query_result.requires_escalation THEN "URGENT"
    ELSE IF query_result.confidence >= self._settings.confidence_threshold THEN "MEDIUM"
    ELSE IF query_result.sentiment = "FRUSTRATED" THEN "HIGH"
    ELSE IF query_result.sentiment = "URGENT" THEN "HIGH"
    ELSE IF query_result.urgency_indicators # {} THEN "HIGH"
    ELSE IF query_result.intent_category = "GENERAL_INQUIRY" THEN "LOW"
    ELSE "MEDIUM"

\* _determine_priority with the sentiment rules ahead of the flag rule.
_determine_priority_sentiment_first(self, query_result) ==
    IF query_result.sentiment = "FRUSTRATED" THEN "HIGH"
    ELSE IF query_result.sentiment = "URGENT" THEN "HIGH"
    ELSE IF query_result.requires_escalation THEN "URGENT"
    ELSE IF query_result.urgency_indicators # {} THEN "HIGH"
    ELSE IF query_result.confidence >= self._settings.confidence_threshold THEN "MEDIUM"
    ELSE IF query_result.intent_category = "GENERAL_INQUIRY" THEN "LOW"
    ELSE "MEDIUM"

\* RouterAgent._determine_priority: the first matching rule decides.
_determine_priority(self, query_result) ==
    IF query_result.requires_escalation THEN "URGENT"
    ELSE IF query_result.sentiment = "FRUSTRATED" THEN "HIGH"
    ELSE IF query_result.sentiment = "URGENT" THEN "HIGH"
    ELSE IF query_result.urgency_indicators # {} THEN "HIGH"
    ELSE IF query_result.confidence >= self._settings.confidence_threshold THEN "MEDIUM"
    ELSE IF query_result.intent_category = "GENERAL_INQUIRY" THEN "LOW"
    ELSE "MEDIUM"

\* _check_escalation with the reason of the last escalation branch left out.
_check_escalation_no_reason(self, query_result, clarification_attempts) ==
    IF query_result.requires_escalation THEN
        IF query_result.intent_category = "HUMAN_REQUEST"
            THEN <<TRUE, "user_requested_human">>
        ELSE IF query_result.intent_category = "POLICY_EXCEPTION"
            THEN <<TRUE, "policy_keyword_detected">>
        ELSE <<TRUE, "sensitive_topic">>
    ELSE IF query_result.intent \in self.ESCALATION_INTENTS THEN
        IF query_result.intent \in {"request_human", "speak_to_person"}
            THEN <<TRUE, "user_requested_human">>
        ELSE <<TRUE, "policy_keyword_detected">>
    ELSE IF query_result.confidence < self._settings.confidence_threshold THEN
        IF clarification_attempts >= self._settings.max_clarification_attempts
            THEN <<TRUE, None>>
        ELSE <<FALSE, None>>
    ELSE <<FALSE, None>>

\* _check_escalation with the confidence test ahead of the intent test.
_check_escalation_confidence_first(self, query_result, clarification_attempts) ==
    IF query_result.requires_escalation THEN
        IF query_result.intent_category = "HUMAN_REQUEST"
            THEN <<TRUE, "user_requested_human">>
        ELSE IF query_result.intent_category = "POLICY_EXCEPTION"
            THEN <<TRUE, "policy_keyword_detected">>
        ELSE <<TRUE, "sensitive_topic">>
    ELSE IF query_result.confidence < self._settings.confidence_threshold THEN
        IF clarification_attempts >= self._settings.max_clarification_attempts
            THEN <<TRUE, "max_clarifications_exceeded">>
        ELSE <<FALSE, None>>
    ELSE IF query_result.intent \in self.ESCALATION_INTENTS THEN
        IF query_result.intent \in {"request_human", "speak_to_person"}
            THEN <<TRUE, "user_requested_human">>
        ELSE <<TRUE, "policy_keyword_detected">>
    ELSE <<FALSE, None>>

\* _check_escalation with the attempts test ahead of the confidence test.
_check_escalation_attempts_first(self, query_result, clarification_attempts) ==
    IF query_result.requires_escalation THEN
        IF query_result.intent_category = "HUMAN_REQUEST"
            THEN <<TRUE, "user_requested_human">>
        ELSE IF query_result.intent_category = "POLICY_EXCEPTION"
            THEN <<TRUE, "policy_keyword_detected">>
        ELSE <<TRUE, "sensitive_topic">>
    ELSE IF query_result.intent \in self.ESCALATION_INTENTS THEN
        IF query_result.intent \in {"request_human", "speak_to_person"}
            THEN <<TRUE, "user_requested_human">>
        ELSE <<TRUE, "policy_keyword_detected">>
    ELSE IF clarification_attempts >= self._settings.max_clarification_attempts
        THEN <<TRUE, "max_clarifications_exceeded">>
    ELSE <<FALSE, None>>

\* _check_escalation with "== max" in place of ">= max".
_check_escalation_exact_max(self, query_result, clarification_attempts) ==
    IF query_result.requires_escalation THEN
        IF query_result.intent_category = "HUMAN_REQUEST"
            THEN <<TRUE, "user_requested_human">>
        ELSE IF query_result.intent_category = "POLICY_EXCEPTION"
            THEN <<TRUE, "policy_keyword_detected">>
        ELSE <<TRUE, "sensitive_topic">>
    ELSE IF query_result.intent \in self.ESCALATION_INTENTS THEN
        IF query_result.intent \in {"request_human", "speak_to_person"}
            THEN <<TRUE, "user_requested_human">>
        ELSE <<TRUE, "policy_keyword_detected">>
    ELSE IF query_result.confidence < self._settings.confidence_threshold THEN
        IF clarification_attempts = self._settings.max_clarification_attempts
            THEN <<TRUE, "max_clarifications_exceeded">>
        ELSE <<FALSE, None>>
    ELSE <<FALSE, None>>

\* RouterAgent._check_escalation: the pair (escalate, reason).
_check_escalation(self, query_result, clarification_attempts) ==
    IF query_result.requires_escalation THEN
        IF query_result.intent_category = "HUMAN_REQUEST"
            THEN <<TRUE, "user_requested_human">>
        ELSE IF query_result.intent_category = "POLICY_EXCEPTION"
            THEN <<TRUE, "policy_keyword_detected">>
        ELSE <<TRUE, "sensitive_topic">>
    ELSE IF query_result.intent \in self.ESCALATION_INTENTS THEN
        IF query_result.intent \in {"request_human", "speak_to_person"}
            THEN <<TRUE, "user_requested_human">>
        ELSE <<TRUE, "policy_keyword_detected">>
    ELSE IF query_result.confidence < self._settings.confidence_threshold THEN
        IF clarification_attempts >= self._settings.max_clarification_attempts
            THEN <<TRUE, "max_clarifications_exceeded">>
        ELSE <<FALSE, None>>
    ELSE <<FALSE, None>>

\* An SLA lookup that confuses HIGH with URGENT.
_get_sla_hours_high_as_urgent(self, priority) ==
    CASE priority = "URGENT" -> self._settings.sla_urgent_hours
      [] priority = "HIGH"   -> self._settings.sla_urgent_hours
      [] priority = "MEDIUM" -> self._settings.sla_medium_hours
      [] priority = "LOW"    -> self._settings.sla_low_hours
      [] OTHER               -> self._settings.sla_medium_hours

\* RouterAgent._get_sla_hours
_get_sla_hours(self, priority) ==
    CASE priority = "URGENT" -> self._settings.sla_urgent_hours
      [] priority = "HIGH"   -> self._settings.sla_high_hours
      [] priority = "MEDIUM" -> self._settings.sla_medium_hours
      [] priority = "LOW"    -> self._settings.sla_low_hours
      [] OTHER               -> self._settings.sla_medium_hours

\* A department step that keeps the classifier's suggestion.
department_step_suggestion(self, query_result) ==
    [department |-> query_result.department_suggestion,
     rules |-> << <<"query_agent_suggestion", "">> >>]

\* The department after the category override (route, lines 81-90), with
\* the rule trace so far.  A rule f"priority_{p}" is the pair <<"priority", p>>.
department_step(self, query_result) ==
    LET suggested == query_result.department_suggestion
        from_cat  == self.CATEGORY_TO_DEPARTMENT[query_result.intent_category]
    IN  IF from_cat # suggested
            THEN [department |-> from_cat,
                  rules |-> << <<"query_agent_suggestion", "">>,
                               <<"category_to_department_mapping", "">> >>]
            ELSE [department |-> suggested,
                  rules |-> << <<"query_agent_suggestion", "">> >>]

\* route without the department override of an escalation.
route_keeps_department(self, query_result, clarification_attempts) ==
    LET step     == department_step(self, query_result)
        priority == _determine_priority(self, query_result)
        esc      == _check_escalation(self, query_result, clarification_attempts)
        escalate == esc[1]
        reason   == esc[2]
        sla      == _get_sla_hours(self, priority)
    IN  [department |-> step.department,
         priority |-> priority,
         escalate_to_human |-> escalate,
         escalation_reason |-> IF escalate THEN reason ELSE None,
         suggested_sla_hours |-> sla,
         routing_rules_applied |->
            step.rules
            \o << <<"priority", priority>> >>
            \o (IF escalate THEN << <<"escalation", reason>> >> ELSE << >>)
            \o << <<"sla", ToString(sla)>> >>]

\* RouterAgent.route
route(self, query_result, clarification_attempts) ==
    LET step     == department_step(self, query_result)
        priority == _determine_priority(self, query_result)
        esc      == _check_escalation(self, query_result, clarification_attempts)
        escalate == esc[1]
        reason   == esc[2]
        sla      == _get_sla_hours(self, priority)
    IN  [department |->
            IF escalate THEN "ESCALATE_TO_HUMAN" ELSE step.department,
         priority |-> priority,
         escalate_to_human |-> escalate,
         escalation_reason |-> IF escalate THEN reason ELSE None,
         suggested_sla_hours |-> sla,
         routing_rules_applied |->
            step.rules
            \o << <<"priority", priority>> >>
            \o (IF escalate THEN << <<"escalation", reason>> >> ELSE << >>)
            \o << <<"sla", ToString(sla)>> >>]

\* needs_clarification that stops asking one attempt early.
needs_clarification_early_stop(self, query_result, clarification_attempts) ==
    IF clarification_attempts >= self._settings.max_clarification_attempts - 1 THEN FALSE
    ELSE IF query_result.requires_escalation THEN FALSE
    ELSE query_result.confidence < self._settings.confidence_threshold

\* needs_clarification without the test on the attempts.
needs_clarification_any_attempts(self, query_result, clarification_attempts) ==
    IF query_result.requires_escalation THEN FALSE
    ELSE query_result.confidence < self._settings.confidence_threshold

\* needs_clarification with "<=" in place of "<" on the confidence.
needs_clarification_inclusive(self, query_result, clarification_attempts) ==
    IF clarification_attempts >= self._settings.max_clarification_attempts THEN FALSE
    ELSE IF query_result.requires_escalation THEN FALSE
    ELSE query_result.confidence <= self._settings.confidence_threshold

\* RouterAgent.needs_clarification
needs_clarification(self, query_result, clarification_attempts) ==
    IF clarification_attempts >= self._settings.max_clarification_attempts THEN FALSE
    ELSE IF query_result.requires_escalation THEN FALSE
    ELSE query_result.confidence < self._settings.confidence_threshold

\* The agent after route (lines 64-117) when route writes the department it
\* decided into the category table, as a cache would.
route_self_caching(self, query_result, clarification_attempts) ==
    [self EXCEPT !.CATEGORY_TO_DEPARTMENT[query_result.intent_category] =
        route(self, query_result, clarification_attempts).department]

\* The agent after route (lines 64-117): rules_applied and every other name
\* route assigns is a local of the call; no attribute of self and no entry of
\* a class table is written.
route_self(self, query_result, clarification_attempts) == self

\* The agent after needs_clarification (lines 187-211): it only reads.
needs_clarification_self(self, query_result, clarification_attempts) == self

(***************************************************************************)
(* QueryResult (app/models/schemas.py)                                     *)
(***************************************************************************)
QueryResult(intent, cat, dept, ents, conf, req, pii, pii_types, sent, urg) ==
    [intent |-> intent,
     intent_category |-> cat,
     department_suggestion |-> dept,
     entities |-> ents,
     confidence |-> conf,
     requires_escalation |-> req,
     pii_detected |-> pii,
     pii_types |-> pii_types,
     sentiment |-> sent,
     urgency_indicators |-> urg]

\* Inputs of the router: the six escalation intents and two ordinary ones,
\* confidences on both sides of the threshold and on it.
RouterIntents == ESCALATION_INTENTS \cup {"password_reset", "general_question"}
RouterConfidences == {45, 69, 70, 92}
RouterUrgency == {{}, {"asap"}}
RouterQueries ==
    {QueryResult(i, c, d, {}, conf, req, FALSE, {}, s, u) :
        i \in RouterIntents, c \in IntentCategory, d \in Department,
        conf \in RouterConfidences, req \in BOOLEAN, s \in Sentiment,
        u \in RouterUrgency}

(***************************************************************************)
(* AzureOpenAILLMService.classify_intent                                   *)
(* (app/services/azure/llm_service.py)                                     *)
(*                                                                         *)
(* The reply of the hosted model is a text.  A JSON object is kept as the  *)
(* record of its keys; a key that is absent holds Missing, a key whose     *)
(* value the target type rejects (null, a number for a string, a word for  *)
(* a number or a boolean) holds Invalid.                                   *)
(***************************************************************************)
Missing == "<missing>"
Invalid == "<invalid>"

\* The default of data.get("confidence", 0.85).
DEFAULT_CONFIDENCE == 85
\* The confidence of the fallback QueryResult.
FALLBACK_CONFIDENCE == 30

\* json.loads("{}"): every key absent.
EmptyObject ==
    [intent |-> Missing,
     intent_category |-> Missing,
     department |-> Missing,
     sentiment |-> Missing,
     confidence |-> [kind |-> Missing, number |-> 0],
     requires_escalation |-> Missing,
     entities |-> [kind |-> Missing, items |-> {}],
     pii_detected |-> Missing,
     pii_types |-> [kind |-> Missing, items |-> {}],
     urgency_indicators |-> [kind |-> Missing, items |-> {}]]

\* A reply text is [fence, text]: text is what stands between the markdown
\* fence, or the whole reply when fence is "none".  A text is [kind, object]
\* with kind "object", "array" (JSON that is no object) or "not_json".
Text(kind, object) == [kind |-> kind, object |-> object]
NotJson == Text("not_json", EmptyObject)

\* json.loads: a fenced reply is not JSON as it stands.
json_loads(content) ==
    IF content.fence # "none" THEN NotJson ELSE content.text

\* AzureOpenAILLMService._parse_json_response: the text inside a markdown
\* fence is taken out, then json.loads; a JSONDecodeError gives {}.
_parse_json_response(content) ==
    LET stripped == [fence |-> "none", text |-> content.text]
        loaded   == json_loads(stripped)
    IN  IF loaded.kind = "not_json" THEN Text("object", EmptyObject)
        ELSE loaded

\* The QueryResult of the except branch (lines 161-174).
FallbackQueryResult ==
    QueryResult("general_question", "GENERAL_INQUIRY", "ESCALATE_TO_HUMAN",
                {}, FALLBACK_CONFIDENCE, TRUE, FALSE, {}, "NEUTRAL", {})

\* data.get(key, default) for a key holding a string.
get_or(value, default) == IF value = Missing THEN default ELSE value

\* Enum(value) inside try/except ValueError: the default on a value that
\* is no member.
enum_or(value, members, default) ==
    IF value \in members THEN value ELSE default

\* A boolean key as QueryResult validates it.
bool_of(value) == value = "true"

\* Whether building the QueryResult raises: float() of a non-number, a
\* confidence outside [0, 1], or a value of the wrong type (lines 148-159).
construction_raises(obj) ==
    \/ obj.intent = Invalid
    \/ obj.confidence.kind = Invalid
    \/ (obj.confidence.kind = "number"
            /\ (obj.confidence.number < 0 \/ obj.confidence.number > 100))
    \/ obj.requires_escalation = Invalid
    \/ obj.entities.kind = Invalid
    \/ obj.pii_detected = Invalid
    \/ obj.pii_types.kind = Invalid
    \/ obj.urgency_indicators.kind = Invalid

\* The QueryResult built from a parsed object (lines 127-159).
query_result_of(obj) ==
    QueryResult(
        get_or(obj.intent, "general_question"),
        enum_or(get_or(obj.intent_category, "GENERAL_INQUIRY"),
                IntentCategory, "GENERAL_INQUIRY"),
        enum_or(get_or(obj.department, "IT"), Department, "IT"),
        obj.entities.items,
        IF obj.confidence.kind = Missing THEN DEFAULT_CONFIDENCE
            ELSE obj.confidence.number,
        bool_of(get_or(obj.requires_escalation, "false")),
        bool_of(get_or(obj.pii_detected, "false")),
        obj.pii_types.items,
        enum_or(get_or(obj.sentiment, "NEUTRAL"), Sentiment, "NEUTRAL"),
        obj.urgency_indicators.items)

\* AzureOpenAILLMService.classify_intent on the reply of the hosted model:
\* every exception inside the try gives the fallback.
classify_intent(response) ==
    IF response.call # "ok" THEN FallbackQueryResult
    ELSE LET data == _parse_json_response(response.content)
         IN  IF data.kind # "object" THEN FallbackQueryResult
             ELSE IF construction_raises(data.object) THEN FallbackQueryResult
             ELSE query_result_of(data.object)

(***************************************************************************)
(* ActionAgent (app/agents/action_agent.py): the synchronous helpers       *)
(***************************************************************************)
KB_SELF_SERVICE_THRESHOLD == 50

\* limit=3 of the knowledge search (ActionAgent._search_knowledge_with_content)
KB_SEARCH_LIMIT == 3

\* _should_create_ticket with ">" in place of ">=" on the relevance.
_should_create_ticket_strict(routing_decision, knowledge_articles) ==
    IF routing_decision.escalate_to_human THEN TRUE
    ELSE IF routing_decision.priority \in {"HIGH", "URGENT"} THEN TRUE
    ELSE IF /\ knowledge_articles # << >>
            /\ knowledge_articles[1].relevance_score > KB_SELF_SERVICE_THRESHOLD
        THEN FALSE
    ELSE TRUE

\* _should_create_ticket with the article test ahead of the escalation test.
_should_create_ticket_articles_first(routing_decision, knowledge_articles) ==
    IF /\ knowledge_articles # << >>
       /\ knowledge_articles[1].relevance_score >= KB_SELF_SERVICE_THRESHOLD
        THEN FALSE
    ELSE TRUE

\* ActionAgent._should_create_ticket
_should_create_ticket(routing_decision, knowledge_articles) ==
    IF routing_decision.escalate_to_human THEN TRUE
    ELSE IF routing_decision.priority \in {"HIGH", "URGENT"} THEN TRUE
    ELSE IF /\ knowledge_articles # << >>
            /\ knowledge_articles[1].relevance_score >= KB_SELF_SERVICE_THRESHOLD
        THEN FALSE
    ELSE TRUE

\* ActionAgent._format_sla over SLA_DESCRIPTIONS; hours outside the table
\* are named by their unit only, N standing for the number: one whole day
\* (24..47 hours) is a "business day", two or more are "business days".
_format_sla(hours) ==
    CASE hours = 1  -> "within 1 hour"
      [] hours = 4  -> "within 4 hours"
      [] hours = 24 -> "within 1 business day"
      [] hours = 48 -> "within 2 business days"
      [] hours = 72 -> "within 3 business days"
      [] OTHER -> IF hours < 24 THEN "within N hours"
                  ELSE IF hours \div 24 > 1 THEN "within N business days"
                  ELSE "within N business day"

\* A message text, kept as its runs of equal characters: "aaab" is
\* <<Run("a", 3), Run("b", 1)>>, adjacent runs differing in their character.
Run(char, count) == [char |-> char, count |-> count]

RECURSIVE Length(_)
\* len(text)
Length(text) ==
    IF text = << >> THEN 0 ELSE Head(text).count + Length(Tail(text))

RECURSIVE Slice(_, _)
\* text[:limit]
Slice(text, limit) ==
    IF text = << >> \/ limit <= 0 THEN << >>
    ELSE IF Head(text).count >= limit
        THEN <<Run(Head(text).char, limit)>>
    ELSE <<Head(text)>> \o Slice(Tail(text), limit - Head(text).count)

\* Characters of the raw message that the description may carry.
DESCRIPTION_MESSAGE_LIMIT == 500

\* The lines of a description: the four fixed lines, the Entities and
\* Urgency lines (absent when empty), and either the PII note or the
\* "User message" line.
Description(query_result, entities, urgency, note, has_message, message) ==
    [intent |-> query_result.intent,
     category |-> query_result.intent_category,
     confidence |-> query_result.confidence,
     sentiment |-> query_result.sentiment,
     entities |-> entities,
     urgency |-> urgency,
     pii_note |-> note,
     has_user_message |-> has_message,
     user_message |-> message]

\* A description that carries the message whatever pii_detected says.
_generate_ticket_description_raw(query_result, original_message) ==
    Description(query_result, query_result.entities,
                query_result.urgency_indicators, FALSE, TRUE,
                Slice(original_message, DESCRIPTION_MESSAGE_LIMIT))

\* ActionAgent._generate_ticket_description
_generate_ticket_description(query_result, original_message) ==
    IF query_result.pii_detected
        THEN Description(query_result, query_result.entities,
                         query_result.urgency_indicators, TRUE, FALSE, << >>)
        ELSE Description(query_result, query_result.entities,
                         query_result.urgency_indicators, FALSE, TRUE,
                         Slice(original_message, DESCRIPTION_MESSAGE_LIMIT))

\* Raw messages: short ones, and ones of 500 and 501 characters whose last
\* characters differ from the rest.
Messages ==
    {<<Run("a", 1)>>,
     <<Run("a", 3), Run("b", 1)>>,
     <<Run("a", DESCRIPTION_MESSAGE_LIMIT)>>,
     <<Run("a", DESCRIPTION_MESSAGE_LIMIT - 1), Run("b", 1)>>,
     <<Run("a", DESCRIPTION_MESSAGE_LIMIT), Run("b", 1)>>,
     <<Run("a", DESCRIPTION_MESSAGE_LIMIT - 1), Run("b", 2)>>}

\* A status that forgets the escalation.
execute_status_never_escalated(routing_decision, ticket_created) ==
    IF ticket_created THEN "created" ELSE "kb_only"

\* The status execute gives once the ticket decision is taken (lines 96-119).
execute_status(routing_decision, ticket_created) ==
    IF ticket_created
        THEN IF routing_decision.escalate_to_human THEN "escalated"
             ELSE "created"
        ELSE "kb_only"

\* The ActionResult execute returns (lines 136-145).
ActionResult(routing_decision, ticket_id, status, knowledge_articles) ==
    [ticket_id |-> ticket_id,
     department |-> routing_decision.department,
     status |-> status,
     knowledge_articles |-> knowledge_articles,
     estimated_response_time |->
        _format_sla(routing_decision.suggested_sla_hours),
     escalated |-> routing_decision.escalate_to_human]

\* ActionAgent.create_clarification_response
create_clarification_response ==
    [ticket_id |-> [dept_code |-> None, seq |-> 0],
     department |-> "IT",
     status |-> "pending_clarification",
     knowledge_articles |-> << >>,
     estimated_response_time |-> "pending",
     escalated |-> FALSE]

\* Knowledge search results: at most KB_SEARCH_LIMIT articles, sorted by
\* descending relevance (MockKnowledgeService.search_with_content).
Article(score) == [relevance_score |-> score]
ArticleScores == {20, 49, 50, 80}
IsDescending(seq) ==
    \A i \in 1..(Len(seq) - 1) :
        seq[i].relevance_score >= seq[i + 1].relevance_score
ArticleLists ==
    {seq \in UNION {[1..n -> {Article(sc) : sc \in ArticleScores}] :
                        n \in 0..KB_SEARCH_LIMIT} : IsDescending(seq)}

\* RoutingDecision values the schema admits: a reason iff escalated
\* (RoutingDecision.require_reason_if_escalated), sla_hours > 0.
RoutingDecision(department, priority, escalate, reason) ==
    [department |-> department,
     priority |-> priority,
     escalate_to_human |-> escalate,
     escalation_reason |-> reason,
     suggested_sla_hours |-> _get_sla_hours(router_agent, priority),
     routing_rules_applied |-> << >>]
RoutingDecisions ==
    {RoutingDecision(d, p, FALSE, None) : d \in Department, p \in Priority}
    \cup {RoutingDecision(d, p, TRUE, why) :
            d \in Department, p \in Priority, why \in EscalationReason}

\* Optional routing decision: none reached yet.
NoDecision == RoutingDecision(None, None, FALSE, None)

(***************************************************************************)
(* MockTicketService (app/services/mock/ticket_service.py)                 *)
(***************************************************************************)
\* dept_codes of _generate_ticket_id
dept_codes ==
    [d \in Department |->
        CASE d = "IT"                -> "IT"
          [] d = "HR"                -> "HR"
          [] d = "REGISTRAR"         -> "REG"
          [] d = "FINANCIAL_AID"     -> "FIN"
          [] d = "FACILITIES"        -> "FAC"
          [] d = "STUDENT_AFFAIRS"   -> "STU"
          [] d = "CAMPUS_SAFETY"     -> "SAF"
          [] d = "ESCALATE_TO_HUMAN" -> "ESC"]

DeptCodes == {dept_codes[d] : d \in Department}

\* A ticket id TKT-{code}-{today}-{seq:04d} is kept as its code and its
\* sequence number; every request of a run falls on the same day.
TicketId(code, seq) == [dept_code |-> code, seq |-> seq]

\* Optional[str] ticket_id = None
NoTicketId == TicketId(None, 0)

\* MockTicketService._generate_ticket_id: the counter of the department's
\* key after the increment, and the id made of it.
_generate_ticket_id(counter, department) ==
    LET code == dept_codes[department]
        seq  == counter[code] + 1
    IN  [counter |-> [counter EXCEPT ![code] = seq],
         ticket_id |-> TicketId(code, seq)]

\* The largest sequence number that {seq:04d} prints in four digits.
MAX_FOUR_DIGITS == 9999

\* ActionResult.validate_ticket_id / ChatResponse.validate_ticket_id:
\* ^TKT-[A-Z]{2,3}-\d{8}-\d{4}$
validate_ticket_id(ticket_id) ==
    \/ ticket_id = NoTicketId
    \/ /\ ticket_id.dept_code \in DeptCodes
       /\ ticket_id.seq >= 0
       /\ ticket_id.seq <= MAX_FOUR_DIGITS

(***************************************************************************)
(* submit_query (app/api/routes.py): the values it builds                  *)
(***************************************************************************)
\* Session(...) of lines 96-104. stored tells whether
\* MockSessionStore._sessions holds the object under its key: create_session
\* and update_session put it there, clear_all takes it out while a request
\* in flight still holds the object.
NewSession ==
    [clarification_attempts |-> 0, conversation_history |-> << >>,
     stored |-> TRUE]

\* A session_id that uuid.UUID rejects (line 93).
NotAUuid == -1

\* ConversationTurn(...) of lines 160-166.
ConversationTurn(history, query_result, action_result) ==
    [turn_number |-> Len(history) + 1,
     intent |-> query_result.intent,
     ticket_id |-> action_result.ticket_id,
     escalated |-> action_result.escalated]

\* AuditLog(...) of lines 177-191.
AuditLog(session_id, query_result, routing_decision, action_result) ==
    [session_id |-> session_id,
     detected_intent |-> query_result.intent,
     confidence_score |-> query_result.confidence,
     routed_department |-> routing_decision.department,
     ticket_id |-> action_result.ticket_id,
     escalated |-> action_result.escalated,
     escalation_reason |-> routing_decision.escalation_reason,
     pii_detected |-> query_result.pii_detected,
     sentiment |-> query_result.sentiment]

\* A response that drops the escalation reason.
ChatResponse_without_reason(session_id, routing_decision, action_result) ==
    [kind |-> "chat_response",
     session_id |-> session_id,
     ticket_id |-> action_result.ticket_id,
     department |->
        IF action_result.department # "ESCALATE_TO_HUMAN"
            THEN action_result.department ELSE None,
     status |-> action_result.status,
     knowledge_articles |-> action_result.knowledge_articles,
     escalated |-> action_result.escalated,
     escalation_reason |-> None,
     estimated_response_time |-> action_result.estimated_response_time]

\* ChatResponse(...) of lines 194-204.
ChatResponse(session_id, routing_decision, action_result) ==
    [kind |-> "chat_response",
     session_id |-> session_id,
     ticket_id |-> action_result.ticket_id,
     department |->
        IF action_result.department # "ESCALATE_TO_HUMAN"
            THEN action_result.department ELSE None,
     status |-> action_result.status,
     knowledge_articles |-> action_result.knowledge_articles,
     escalated |-> action_result.escalated,
     escalation_reason |-> routing_decision.escalation_reason,
     estimated_response_time |-> action_result.estimated_response_time]

\* A clarification request that claims an escalation.
ClarificationResponse_escalated(session_id) ==
    [kind |-> "chat_response",
     session_id |-> session_id,
     ticket_id |-> NoTicketId,
     department |-> None,
     status |-> "pending_clarification",
     knowledge_articles |-> << >>,
     escalated |-> TRUE,
     escalation_reason |-> "confidence_too_low",
     estimated_response_time |-> None]

\* ChatResponse(...) of lines 133-143, the clarification request.
ClarificationResponse(session_id) ==
    [kind |-> "chat_response",
     session_id |-> session_id,
     ticket_id |-> NoTicketId,
     department |-> None,
     status |-> "pending_clarification",
     knowledge_articles |-> << >>,
     escalated |-> FALSE,
     escalation_reason |-> None,
     estimated_response_time |-> None]

\* An exception left submit_query: the framework answers 500 and no
\* ChatResponse is built.
ServerError ==
    [kind |-> "server_error",
     session_id |-> 0,
     ticket_id |-> NoTicketId,
     department |-> None,
     status |-> None,
     knowledge_articles |-> << >>,
     escalated |-> FALSE,
     escalation_reason |-> None,
     estimated_response_time |-> None]

NoResponse == [ServerError EXCEPT !.kind = "none"]

NoQuery == QueryResult(None, None, None, {}, 0, FALSE, FALSE, {}, None, {})

NoResult ==
    [ticket_id |-> NoTicketId,
     department |-> None,
     status |-> None,
     knowledge_articles |-> << >>,
     estimated_response_time |-> None,
     escalated |-> FALSE]

NoTurn ==
    [turn_number |-> 0, intent |-> None, ticket_id |-> NoTicketId,
     escalated |-> FALSE]

NoAudit == AuditLog(0, NoQuery, NoDecision, NoResult)

\* What the classifier returns in the pipeline: a confident password
\* reset, a vague question, a flagged grade appeal, an unflagged refund
\* request of low confidence, a frustrated login report, and the fallback of a
\* failed classification.
PipelineQueries ==
    {QueryResult("password_reset", "ACCOUNT_ACCESS", "IT",
                 {}, 92, FALSE, FALSE, {}, "NEUTRAL", {}),
     QueryResult("general_question", "GENERAL_INQUIRY", "IT",
                 {}, 45, FALSE, FALSE, {}, "NEUTRAL", {}),
     QueryResult("grade_appeal", "POLICY_EXCEPTION", "ESCALATE_TO_HUMAN",
                 {}, 85, TRUE, FALSE, {}, "NEUTRAL", {}),
     QueryResult("refund_request", "FINANCIAL", "FINANCIAL_AID",
                 {}, 55, FALSE, TRUE, {"email"}, "NEUTRAL", {}),
     QueryResult("login_issues", "ACCOUNT_ACCESS", "IT",
                 {<<"system", "Canvas">>}, 85, FALSE, FALSE, {},
                 "FRUSTRATED", {}),
     FallbackQueryResult}

\* What the knowledge search returns in the pipeline.
PipelineArticles ==
    {<< >>, <<Article(80), Article(20)>>, <<Article(49)>>}

(***************************************************************************)
(* State                                                                   *)
(***************************************************************************)
\* Calls of route with clarification_attempts from 0 up to MaxAttemptsInput.
MaxAttemptsInput == 4

VARIABLES
    \* direct calls of RouterAgent
    r_self, r_query, r_attempts, r_decision, r_previous, r_repeat, r_needs,
    r_pc,
    \* direct calls of ActionAgent._should_create_ticket
    \* and of ActionAgent.execute
    a_decision, a_articles, a_should, a_result, a_pc,
    \* AzureOpenAILLMService.classify_intent on a reply, then the router
    c_response, c_result, c_clarify, c_decision, c_pc,
    \* MockSessionStore._sessions: the stored Session objects, a session's
    \* id being its position
    _sessions,
    \* MockTicketService._tickets and _ticket_counter
    _tickets, _ticket_counter,
    \* MockAuditLog._logs
    _logs,
    \* number of submit_query requests received so far
    requests_received,
    \* submit_query, per request in flight: where it stands, the exception
    \* that left it, and its local variables (session is a reference to the
    \* stored object, kept as the session's id)
    pc, exception, session, query_result, routing_decision,
    knowledge_articles, ticket_id, status, action_result, turn, audit_entry,
    response,
    \* direct calls of MockTicketService: the ids create_ticket returned, in
    \* order, and the outcome of the last delete_ticket
    t_returned, t_deleted,
    \* direct calls of ActionAgent._generate_ticket_description for two turns
    \* that differ only in the raw message
    d_query, d_message, d_other, d_description, d_other_description, d_pc

routerVars == <<r_self, r_query, r_attempts, r_decision, r_previous, r_repeat, r_needs, r_pc>>
actionVars == <<a_decision, a_articles, a_should, a_result, a_pc>>

classifyVars == <<c_response, c_result, c_clarify, c_decision, c_pc>>

storeVars == <<_sessions, _tickets, _ticket_counter, _logs>>
localVars == <<session, query_result, routing_decision, knowledge_articles, ticket_id, status, action_result, turn, audit_entry, response>>
pipeVars == <<storeVars, requests_received, pc, exception, localVars>>

ticketVars == <<t_returned, t_deleted>>

descriptionVars == <<d_query, d_message, d_other, d_description, d_other_description, d_pc>>

vars == <<routerVars, actionVars, classifyVars, pipeVars, ticketVars, descriptionVars>>

RouterIdle ==
    /\ r_self = router_agent
    /\ r_query = None
    /\ r_attempts = 0
    /\ r_decision = NoDecision
    /\ r_previous = NoDecision
    /\ r_repeat = NoDecision
    /\ r_needs = None
    /\ r_pc = "off"

ActionIdle ==
    /\ a_decision = NoDecision
    /\ a_articles = << >>
    /\ a_should = None
    /\ a_result = NoResult
    /\ a_pc = "off"

ClassifyIdle ==
    /\ c_response = None
    /\ c_result = None
    /\ c_clarify = None
    /\ c_decision = NoDecision
    /\ c_pc = "off"

\* Requests that can be in flight at once, sessions the store can hold, and
\* requests received in one run.
MaxRequests == 2
MaxSessions == 2
MaxTurns == 3

Requests == 1..MaxRequests

\* No description has been asked for.
DescriptionIdle ==
    /\ d_query = NoQuery
    /\ d_message = << >>
    /\ d_other = << >>
    /\ d_description = _generate_ticket_description(NoQuery, << >>)
    /\ d_other_description = _generate_ticket_description(NoQuery, << >>)
    /\ d_pc = "off"

\* Fresh services, and no request received.
PipeIdle ==
    /\ _sessions = << >>
    /\ _tickets = {}
    /\ _ticket_counter = [code \in DeptCodes |-> 0]
    /\ _logs = << >>
    /\ requests_received = 0
    /\ pc = [r \in Requests |-> "idle"]
    /\ exception = [r \in Requests |-> None]
    /\ session = [r \in Requests |-> 0]
    /\ query_result = [r \in Requests |-> NoQuery]
    /\ routing_decision = [r \in Requests |-> NoDecision]
    /\ knowledge_articles = [r \in Requests |-> << >>]
    /\ ticket_id = [r \in Requests |-> NoTicketId]
    /\ status = [r \in Requests |-> None]
    /\ action_result = [r \in Requests |-> NoResult]
    /\ turn = [r \in Requests |-> NoTurn]
    /\ audit_entry = [r \in Requests |-> NoAudit]
    /\ response = [r \in Requests |-> NoResponse]
    /\ t_returned = << >>
    /\ t_deleted = None
    /\ DescriptionIdle

\* No request has been received.
NoRequests ==
    /\ requests_received = 0
    /\ pc = [r \in Requests |-> "idle"]
    /\ exception = [r \in Requests |-> None]
    /\ session = [r \in Requests |-> 0]
    /\ query_result = [r \in Requests |-> NoQuery]
    /\ routing_decision = [r \in Requests |-> NoDecision]
    /\ knowledge_articles = [r \in Requests |-> << >>]
    /\ ticket_id = [r \in Requests |-> NoTicketId]
    /\ status = [r \in Requests |-> None]
    /\ action_result = [r \in Requests |-> NoResult]
    /\ turn = [r \in Requests |-> NoTurn]
    /\ audit_entry = [r \in Requests |-> NoAudit]
    /\ response = [r \in Requests |-> NoResponse]

(***************************************************************************)
(* RouterAgent called directly on every QueryResult                        *)
(***************************************************************************)
RouterInit ==
    /\ r_self = RouterAgent(Settings)
    /\ r_query \in RouterQueries
    /\ r_attempts \in 0..max_clarification_attempts
    /\ r_decision = NoDecision
    /\ r_previous = NoDecision
    /\ r_repeat = NoDecision
    /\ r_needs = None
    /\ r_pc = "input"
    /\ ActionIdle
    /\ ClassifyIdle
    /\ PipeIdle

\* The caller evaluates the clarification gate for the query.
CallNeedsClarification ==
    /\ r_pc = "input"
    /\ r_needs' = needs_clarification(r_self, r_query, r_attempts)
    /\ r_self' = needs_clarification_self(r_self, r_query, r_attempts)
    /\ r_pc' = "gated"
    /\ UNCHANGED <<r_query, r_attempts, r_decision, r_previous, r_repeat>>
    /\ UNCHANGED <<actionVars, classifyVars, pipeVars, ticketVars, descriptionVars>>

\* The caller routes the query.
CallRoute ==
    /\ r_pc = "gated"
    /\ r_decision' = route(r_self, r_query, r_attempts)
    /\ r_self' = route_self(r_self, r_query, r_attempts)
    /\ r_pc' = "routed"
    /\ UNCHANGED <<r_query, r_attempts, r_previous, r_repeat, r_needs>>
    /\ UNCHANGED <<actionVars, classifyVars, pipeVars, ticketVars, descriptionVars>>

\* The caller routes the same query again with one more clarification
\* attempt on record.
CallRouteAgain ==
    /\ r_pc = "routed"
    /\ r_attempts < MaxAttemptsInput
    /\ r_attempts' = r_attempts + 1
    /\ r_previous' = r_decision
    /\ LET routed == route_self(r_self, r_query, r_attempts + 1)
       IN  /\ r_decision' = route(r_self, r_query, r_attempts + 1)
           /\ r_needs' = needs_clarification(routed, r_query, r_attempts + 1)
           /\ r_self' = needs_clarification_self(routed, r_query,
                                                 r_attempts + 1)
    /\ UNCHANGED <<r_query, r_repeat, r_pc>>
    /\ UNCHANGED <<actionVars, classifyVars, pipeVars, ticketVars, descriptionVars>>

\* After calls with more attempts on record, the caller routes the query
\* once more with the attempts of the call before the last.
CallRouteBack ==
    /\ r_pc = "routed"
    /\ r_previous # NoDecision
    /\ r_repeat' = route(r_self, r_query, r_attempts - 1)
    /\ r_self' = route_self(r_self, r_query, r_attempts - 1)
    /\ r_pc' = "repeated"
    /\ UNCHANGED <<r_query, r_attempts, r_decision, r_previous, r_needs>>
    /\ UNCHANGED <<actionVars, classifyVars, pipeVars, ticketVars, descriptionVars>>

RouterNext ==
    CallNeedsClarification \/ CallRoute \/ CallRouteAgain \/ CallRouteBack

SpecRouter == RouterInit /\ [][RouterNext]_vars

(***************************************************************************)
(* ActionAgent._should_create_ticket called directly on every decision     *)
(***************************************************************************)
ActionInit ==
    /\ a_decision \in RoutingDecisions
    /\ a_articles \in ArticleLists
    /\ a_should = None
    /\ a_result = NoResult
    /\ a_pc = "input"
    /\ RouterIdle
    /\ ClassifyIdle
    /\ PipeIdle

CallShouldCreateTicket ==
    /\ a_pc = "input"
    /\ a_should' = _should_create_ticket(a_decision, a_articles)
    /\ a_pc' = "decided"
    /\ UNCHANGED <<a_decision, a_articles, a_result>>
    /\ UNCHANGED <<routerVars, classifyVars, pipeVars, ticketVars, descriptionVars>>

\* ActionAgent.execute (lines 80-145) with the mock services: the search
\* returns a_articles, the ticket decision is taken, the ticket is created
\* when it says so, and the ActionResult is returned unless its ticket id
\* fails validation.
CallExecute ==
    /\ a_pc = "input"
    /\ a_should' = _should_create_ticket(a_decision, a_articles)
    /\ IF _should_create_ticket(a_decision, a_articles)
          THEN LET made == _generate_ticket_id(_ticket_counter,
                                              a_decision.department)
               IN  /\ _ticket_counter' = made.counter
                   /\ _tickets' = _tickets \cup
                        {[ticket_id |-> made.ticket_id,
                          department |-> a_decision.department,
                          priority |-> a_decision.priority]}
                   /\ IF validate_ticket_id(made.ticket_id)
                         THEN /\ a_result' = ActionResult(a_decision,
                                    made.ticket_id,
                                    execute_status(a_decision, TRUE),
                                    a_articles)
                              /\ a_pc' = "executed"
                         ELSE /\ a_result' = NoResult
                              /\ a_pc' = "raised"
          ELSE /\ a_result' = ActionResult(a_decision, NoTicketId,
                                  execute_status(a_decision, FALSE),
                                  a_articles)
               /\ a_pc' = "executed"
               /\ UNCHANGED <<_tickets, _ticket_counter>>
    /\ UNCHANGED <<a_decision, a_articles>>
    /\ UNCHANGED <<_sessions, _logs, requests_received, pc, exception>>
    /\ UNCHANGED <<localVars, routerVars, classifyVars, ticketVars, descriptionVars>>

ActionNext == CallShouldCreateTicket \/ CallExecute

SpecAction == ActionInit /\ [][ActionNext]_vars

(***************************************************************************)
(* classify_intent called on every reply shape, its result then taken      *)
(* through the clarification gate and the router as the first message of   *)
(* a session (clarification_attempts = 0)                                  *)
(***************************************************************************)
Field(kind, items) == [kind |-> kind, items |-> items]
Number(kind, number) == [kind |-> kind, number |-> number]

ReplyObjects ==
    [intent : {Missing, Invalid, "password_reset", "refund_request"},
     intent_category : {Missing, Invalid, "ACCOUNT_ACCESS", "FINANCIAL"},
     department : {Missing, Invalid, "REGISTRAR", "ESCALATE_TO_HUMAN"},
     sentiment : {Missing, Invalid, "FRUSTRATED"},
     confidence : {Number(Missing, 0), Number(Invalid, 0),
                   Number("number", 45), Number("number", 92),
                   Number("number", 150)},
     requires_escalation : {Missing, Invalid, "true", "false"},
     entities : {Field(Missing, {}), Field(Invalid, {}),
                 Field("value", {<<"system", "Canvas">>})},
     pii_detected : {"false"},
     pii_types : {Field("value", {})},
     urgency_indicators : {Field("value", {})}]

ReplyTexts ==
    {NotJson, Text("array", EmptyObject)}
    \cup {Text("object", obj) : obj \in ReplyObjects}

\* The call fails (HTTP error, timeout), the envelope has no
\* choices[0].message.content, or a reply text arrives.
LLMResponses ==
    {[call |-> c, content |-> [fence |-> "none", text |-> NotJson]] :
        c \in {"http_error", "no_content"}}
    \cup {[call |-> "ok", content |-> [fence |-> f, text |-> t]] :
            f \in {"none", "json"}, t \in ReplyTexts}

ClassifyInit ==
    /\ c_response \in LLMResponses
    /\ c_result = None
    /\ c_clarify = None
    /\ c_decision = NoDecision
    /\ c_pc = "input"
    /\ RouterIdle
    /\ ActionIdle
    /\ PipeIdle

\* QueryAgent.analyze: the result of classify_intent, unchanged.
Classify ==
    /\ c_pc = "input"
    /\ c_result' = classify_intent(c_response)
    /\ c_pc' = "classified"
    /\ UNCHANGED <<c_response, c_clarify, c_decision>>
    /\ UNCHANGED <<routerVars, actionVars, pipeVars, ticketVars, descriptionVars>>

\* submit_query, lines 118-149, on a new session: the clarification gate,
\* and route when the gate does not ask.
RouteClassified ==
    /\ c_pc = "classified"
    /\ c_clarify' = needs_clarification(router_agent, c_result, 0)
    /\ c_decision' = IF needs_clarification(router_agent, c_result, 0) THEN NoDecision
                     ELSE route(router_agent, c_result, 0)
    /\ c_pc' = "routed"
    /\ UNCHANGED <<c_response, c_result>>
    /\ UNCHANGED <<routerVars, actionVars, pipeVars, ticketVars, descriptionVars>>

ClassifyNext == Classify \/ RouteClassified

SpecClassify == ClassifyInit /\ [][ClassifyNext]_vars

(***************************************************************************)
(* POST /api/chat: submit_query (app/api/routes.py) with the agents and    *)
(* the in-memory services behind it.  Requests run as coroutines of one    *)
(* event loop: a request runs alone from one await to the next, and        *)
(* another request may run while it waits.                                 *)
(***************************************************************************)
Init ==
    /\ RouterIdle
    /\ ActionIdle
    /\ ClassifyIdle
    /\ PipeIdle

otherVars == <<routerVars, actionVars, classifyVars, ticketVars, descriptionVars>>

\* An exception leaves submit_query at this point.
Raise(r, error) ==
    /\ pc' = [pc EXCEPT ![r] = "raised"]
    /\ exception' = [exception EXCEPT ![r] = error]
    /\ response' = [response EXCEPT ![r] = ServerError]

\* Lines 83-105: a request arrives with session_id (0: none given, or one
\* the store does not hold; NotAUuid: a string that UUID(session_id)
\* rejects with a ValueError nothing catches); the stored session is
\* fetched, or a new one made and stored.
Start(r, session_id) ==
    /\ pc[r] \in {"idle", "done", "raised"}
    /\ requests_received < MaxTurns
    /\ requests_received' = requests_received + 1
    /\ IF session_id = NotAUuid
          THEN /\ Raise(r, "ValueError")
               /\ session' = [session EXCEPT ![r] = 0]
               /\ UNCHANGED _sessions
          ELSE /\ IF /\ session_id \in DOMAIN _sessions
                     /\ _sessions[session_id].stored
                    THEN /\ session' = [session EXCEPT ![r] = session_id]
                         /\ UNCHANGED _sessions
                    ELSE /\ Len(_sessions) < MaxSessions
                         /\ session' =
                              [session EXCEPT ![r] = Len(_sessions) + 1]
                         /\ _sessions' = Append(_sessions, NewSession)
               /\ pc' = [pc EXCEPT ![r] = "analyze"]
               /\ exception' = [exception EXCEPT ![r] = None]
               /\ response' = [response EXCEPT ![r] = NoResponse]
    /\ query_result' = [query_result EXCEPT ![r] = NoQuery]
    /\ routing_decision' = [routing_decision EXCEPT ![r] = NoDecision]
    /\ knowledge_articles' = [knowledge_articles EXCEPT ![r] = << >>]
    /\ ticket_id' = [ticket_id EXCEPT ![r] = NoTicketId]
    /\ status' = [status EXCEPT ![r] = None]
    /\ action_result' = [action_result EXCEPT ![r] = NoResult]
    /\ turn' = [turn EXCEPT ![r] = NoTurn]
    /\ audit_entry' = [audit_entry EXCEPT ![r] = NoAudit]
    /\ UNCHANGED <<_tickets, _ticket_counter, _logs, otherVars>>

\* Lines 113-149: query_agent.analyze returns result; the clarification
\* gate reads the stored session's attempts; a query that passes the gate is
\* routed at once.
Analyze(r, result) ==
    /\ pc[r] = "analyze"
    /\ query_result' = [query_result EXCEPT ![r] = result]
    /\ LET attempts == _sessions[session[r]].clarification_attempts
       IN  IF needs_clarification(router_agent, result, attempts)
              THEN /\ pc' = [pc EXCEPT ![r] = "clarify"]
                   /\ UNCHANGED routing_decision
              ELSE /\ pc' = [pc EXCEPT ![r] = "search"]
                   /\ routing_decision' =
                        [routing_decision EXCEPT ![r] = route(router_agent, result, attempts)]
    /\ UNCHANGED <<storeVars, requests_received, exception, session>>
    /\ UNCHANGED <<knowledge_articles, ticket_id, status, action_result>>
    /\ UNCHANGED <<turn, audit_entry, response, otherVars>>

\* Lines 121-143: the clarification question has been generated; the
\* stored session's attempts are incremented and the request answered.
Clarify(r) ==
    /\ pc[r] = "clarify"
    /\ _sessions' =
         [_sessions EXCEPT ![session[r]].clarification_attempts = @ + 1,
                           ![session[r]].stored = TRUE]
    /\ response' = [response EXCEPT ![r] = ClarificationResponse(session[r])]
    /\ pc' = [pc EXCEPT ![r] = "done"]
    /\ UNCHANGED <<_tickets, _ticket_counter, _logs, requests_received>>
    /\ UNCHANGED <<exception, session, query_result, routing_decision>>
    /\ UNCHANGED <<knowledge_articles, ticket_id, status, action_result>>
    /\ UNCHANGED <<turn, audit_entry, otherVars>>

\* ActionAgent.execute, lines 84-94 and 120: the knowledge search returns
\* articles, and the ticket decision is taken on them.
SearchKnowledge(r, articles) ==
    /\ pc[r] = "search"
    /\ knowledge_articles' = [knowledge_articles EXCEPT ![r] = articles]
    /\ IF _should_create_ticket(routing_decision[r], articles)
          THEN /\ pc' = [pc EXCEPT ![r] = "create_ticket"]
               /\ UNCHANGED status
          ELSE /\ pc' = [pc EXCEPT ![r] = "respond"]
               /\ status' = [status EXCEPT ![r] =
                                execute_status(routing_decision[r], FALSE)]
    /\ UNCHANGED <<storeVars, requests_received, exception, session>>
    /\ UNCHANGED <<query_result, routing_decision, ticket_id, action_result>>
    /\ UNCHANGED <<turn, audit_entry, response, otherVars>>

\* ActionAgent.execute, lines 84-87: the knowledge search raises; nothing
\* in execute or submit_query catches it.
SearchFails(r) ==
    /\ pc[r] = "search"
    /\ Raise(r, "KnowledgeSearchError")
    /\ UNCHANGED <<storeVars, requests_received, session, query_result>>
    /\ UNCHANGED <<routing_decision, knowledge_articles, ticket_id, status>>
    /\ UNCHANGED <<action_result, turn, audit_entry>>
    /\ UNCHANGED otherVars

\* ActionAgent.execute, lines 96-117, with MockTicketService.create_ticket:
\* the ticket is stored under a new id.
CreateTicket(r) ==
    /\ pc[r] = "create_ticket"
    /\ LET made == _generate_ticket_id(_ticket_counter,
                                       routing_decision[r].department)
       IN  /\ _ticket_counter' = made.counter
           /\ _tickets' = _tickets \cup
                {[ticket_id |-> made.ticket_id,
                  department |-> routing_decision[r].department,
                  priority |-> routing_decision[r].priority]}
           /\ ticket_id' = [ticket_id EXCEPT ![r] = made.ticket_id]
    /\ status' = [status EXCEPT ![r] =
                     execute_status(routing_decision[r], TRUE)]
    /\ pc' = [pc EXCEPT ![r] = "respond"]
    /\ UNCHANGED <<_sessions, _logs, requests_received, exception, session>>
    /\ UNCHANGED <<query_result, routing_decision, knowledge_articles>>
    /\ UNCHANGED <<action_result, turn, audit_entry, response, otherVars>>

\* ActionAgent.execute, lines 104-112: create_ticket raises; nothing in
\* execute or submit_query catches it.
CreateTicketFails(r) ==
    /\ pc[r] = "create_ticket"
    /\ Raise(r, "TicketCreationError")
    /\ UNCHANGED <<storeVars, requests_received, session, query_result>>
    /\ UNCHANGED <<routing_decision, knowledge_articles, ticket_id, status>>
    /\ UNCHANGED <<action_result, turn, audit_entry>>
    /\ UNCHANGED otherVars

\* ActionAgent.execute, lines 123-145, and submit_query, lines 159-204: the
\* response message has been generated; the ActionResult is built, the turn
\* appended to the stored session and its attempts reset, the audit entry
\* logged and the request answered.
Respond(r) ==
    /\ pc[r] = "respond"
    /\ IF ~validate_ticket_id(ticket_id[r])
          THEN /\ Raise(r, "ValidationError")
               /\ UNCHANGED <<storeVars, action_result, turn, audit_entry>>
          ELSE LET result  == ActionResult(routing_decision[r], ticket_id[r],
                                           status[r], knowledge_articles[r])
                   stored  == _sessions[session[r]]
                   newTurn == ConversationTurn(stored.conversation_history,
                                               query_result[r], result)
                   entry   == AuditLog(session[r], query_result[r],
                                       routing_decision[r], result)
               IN  /\ action_result' = [action_result EXCEPT ![r] = result]
                   /\ turn' = [turn EXCEPT ![r] = newTurn]
                   /\ _sessions' = [_sessions EXCEPT ![session[r]] =
                        [clarification_attempts |-> 0,
                         conversation_history |->
                            Append(stored.conversation_history, newTurn),
                         stored |-> TRUE]]
                   /\ audit_entry' = [audit_entry EXCEPT ![r] = entry]
                   /\ _logs' = Append(_logs, entry)
                   /\ response' = [response EXCEPT ![r] =
                        ChatResponse(session[r], routing_decision[r], result)]
                   /\ pc' = [pc EXCEPT ![r] = "done"]
                   /\ UNCHANGED <<_tickets, _ticket_counter, exception>>
    /\ UNCHANGED <<requests_received, session, query_result>>
    /\ UNCHANGED <<routing_decision, knowledge_articles, ticket_id, status>>
    /\ UNCHANGED otherVars

\* The session_id of a request body: none or unknown, a stored one, or a
\* malformed one.
SessionIds == (0..MaxSessions) \cup {NotAUuid}

Next ==
    \/ \E r \in Requests, session_id \in SessionIds : Start(r, session_id)
    \/ \E r \in Requests, result \in PipelineQueries : Analyze(r, result)
    \/ \E r \in Requests : Clarify(r)
    \/ \E r \in Requests, articles \in PipelineArticles :
            SearchKnowledge(r, articles)
    \/ \E r \in Requests : SearchFails(r)
    \/ \E r \in Requests : CreateTicket(r)
    \/ \E r \in Requests : CreateTicketFails(r)
    \/ \E r \in Requests : Respond(r)

Spec == Init /\ [][Next]_vars

(***************************************************************************)
(* The stores' clear_all, which no route calls                             *)
(***************************************************************************)
\* MockSessionStore.clear_all: the store forgets every session; a request
\* in flight keeps its object and update_session stores it again.
MockSessionStore_clear_all ==
    /\ _sessions' = [i \in DOMAIN _sessions |->
                        [_sessions[i] EXCEPT !.stored = FALSE]]
    /\ UNCHANGED <<_tickets, _ticket_counter, _logs, requests_received>>
    /\ UNCHANGED <<pc, exception, localVars, otherVars>>

\* MockAuditLog.clear_all
MockAuditLog_clear_all ==
    /\ _logs' = << >>
    /\ UNCHANGED <<_sessions, _tickets, _ticket_counter, requests_received>>
    /\ UNCHANGED <<pc, exception, localVars, otherVars>>

NextWithClearAll ==
    \/ Next
    \/ MockSessionStore_clear_all
    \/ MockAuditLog_clear_all

\* The service with its stores cleared at any moment, as a test harness
\* may do.
SpecWithClearAll == Init /\ [][NextWithClearAll]_vars

(***************************************************************************)
(* submit_query called turn by turn: a request is received only when no    *)
(* other is in flight                                                      *)
(***************************************************************************)
\* Requests received in one run of turn-by-turn calls.
MaxSerialTurns == 4

InFlight(r) == pc[r] \notin {"idle", "done", "raised"}

\* What a session sends, turn by turn: a vague question, a confident
\* password reset, a low-confidence refund request and a flagged grade
\* appeal.
SerialQueries ==
    {q \in PipelineQueries :
        /\ q.intent \in {"general_question", "password_reset",
                         "refund_request", "grade_appeal"}
        /\ q # FallbackQueryResult}

\* Lines 83-105, as Start, for a caller that waits for the answer to one
\* request before sending the next.
SerialStart(session_id) ==
    /\ \A r \in Requests : ~InFlight(r)
    /\ requests_received < MaxSerialTurns
    /\ requests_received' = requests_received + 1
    /\ IF session_id = NotAUuid
          THEN /\ Raise(1, "ValueError")
               /\ session' = [session EXCEPT ![1] = 0]
               /\ UNCHANGED _sessions
          ELSE /\ IF /\ session_id \in DOMAIN _sessions
                     /\ _sessions[session_id].stored
                    THEN /\ session' = [session EXCEPT ![1] = session_id]
                         /\ UNCHANGED _sessions
                    ELSE /\ Len(_sessions) < MaxSessions
                         /\ session' =
                              [session EXCEPT ![1] = Len(_sessions) + 1]
                         /\ _sessions' = Append(_sessions, NewSession)
               /\ pc' = [pc EXCEPT ![1] = "analyze"]
               /\ exception' = [exception EXCEPT ![1] = None]
               /\ response' = [response EXCEPT ![1] = NoResponse]
    /\ query_result' = [query_result EXCEPT ![1] = NoQuery]
    /\ routing_decision' = [routing_decision EXCEPT ![1] = NoDecision]
    /\ knowledge_articles' = [knowledge_articles EXCEPT ![1] = << >>]
    /\ ticket_id' = [ticket_id EXCEPT ![1] = NoTicketId]
    /\ status' = [status EXCEPT ![1] = None]
    /\ action_result' = [action_result EXCEPT ![1] = NoResult]
    /\ turn' = [turn EXCEPT ![1] = NoTurn]
    /\ audit_entry' = [audit_entry EXCEPT ![1] = NoAudit]
    /\ UNCHANGED <<_tickets, _ticket_counter, _logs, otherVars>>

SerialNext ==
    \/ \E session_id \in SessionIds : SerialStart(session_id)
    \/ \E result \in SerialQueries : Analyze(1, result)
    \/ Clarify(1)
    \/ \E articles \in PipelineArticles : SearchKnowledge(1, articles)
    \/ SearchFails(1)
    \/ CreateTicket(1)
    \/ CreateTicketFails(1)
    \/ Respond(1)

SpecSerial == Init /\ [][SerialNext]_vars

(***************************************************************************)
(* The same turn-by-turn calls on a session that already has a long        *)
(* history                                                                 *)
(***************************************************************************)
\* The history of a session after n routed turns, each a self-service
\* answer to a password reset.
LongHistory(n) ==
    [i \in 1..n |->
        [turn_number |-> i, intent |-> "password_reset",
         ticket_id |-> NoTicketId, escalated |-> FALSE]]

\* The store holds one session, one routed turn short of
\* max_conversation_turns.
HistoryInit ==
    /\ RouterIdle
    /\ ActionIdle
    /\ ClassifyIdle
    /\ _sessions = <<[clarification_attempts |-> 0,
                      conversation_history |->
                          LongHistory(max_conversation_turns - 1),
                      stored |-> TRUE]>>
    /\ _tickets = {}
    /\ _ticket_counter = [code \in DeptCodes |-> 0]
    /\ _logs = << >>
    /\ NoRequests
    /\ t_returned = << >>
    /\ t_deleted = None
    /\ DescriptionIdle

SpecHistory == HistoryInit /\ [][SerialNext]_vars

(***************************************************************************)
(* MockTicketService called directly: create_ticket and delete_ticket on   *)
(* a service that has loaded its sample tickets                            *)
(***************************************************************************)
\* create_ticket calls in one run.
MaxTicketCalls == 3

\* A stored ticket.
Ticket(id, department, priority) ==
    [ticket_id |-> id, department |-> department, priority |-> priority]

\* Contents of sample_tickets.json, dated today: none, a few early tickets,
\* and tickets at the end of the four-digit range.
SampleTicketSets ==
    {{},
     {Ticket(TicketId("IT", 1), "IT", "MEDIUM"),
      Ticket(TicketId("IT", 3), "IT", "HIGH")},
     {Ticket(TicketId("REG", MAX_FOUR_DIGITS - 1), "REGISTRAR", "LOW")},
     {Ticket(TicketId("ESC", MAX_FOUR_DIGITS), "ESCALATE_TO_HUMAN", "URGENT"),
      Ticket(TicketId("IT", 2), "IT", "MEDIUM")}}

MaxOf(numbers) == CHOOSE n \in numbers : \A other \in numbers : other <= n

\* A loader that stores the samples and leaves the counters at 0.
_load_sample_tickets_uncounted(samples) == [code \in DeptCodes |-> 0]

\* MockTicketService._load_sample_tickets: the counter of each key is the
\* largest sequence number loaded under it.
_load_sample_tickets(samples) ==
    [code \in DeptCodes |->
        MaxOf({0} \cup {t.ticket_id.seq :
                            t \in {u \in samples : u.ticket_id.dept_code = code}})]

\* Departments and priorities create_ticket is called with.
TicketDepartments == {"IT", "REGISTRAR", "ESCALATE_TO_HUMAN"}
TicketPriorities == {"MEDIUM", "URGENT"}

TicketInit ==
    /\ RouterIdle
    /\ ActionIdle
    /\ ClassifyIdle
    /\ \E samples \in SampleTicketSets :
        /\ _tickets = samples
        /\ _ticket_counter = _load_sample_tickets(samples)
    /\ _sessions = << >>
    /\ _logs = << >>
    /\ NoRequests
    /\ t_returned = << >>
    /\ t_deleted = None
    /\ DescriptionIdle

\* MockTicketService.create_ticket
create_ticket(department, priority) ==
    /\ Len(t_returned) < MaxTicketCalls
    /\ LET made == _generate_ticket_id(_ticket_counter, department)
       IN  /\ _ticket_counter' = made.counter
           /\ _tickets' =
                {t \in _tickets : t.ticket_id # made.ticket_id}
                \cup {Ticket(made.ticket_id, department, priority)}
           /\ t_returned' = Append(t_returned, made.ticket_id)
    /\ UNCHANGED <<t_deleted, _sessions, _logs, requests_received, pc>>
    /\ UNCHANGED <<exception, localVars, routerVars, actionVars, classifyVars, descriptionVars>>

\* MockTicketService.delete_ticket
delete_ticket(id) ==
    /\ t_deleted' = IF \E t \in _tickets : t.ticket_id = id
                        THEN "true" ELSE "false"
    /\ _tickets' = {t \in _tickets : t.ticket_id # id}
    /\ UNCHANGED <<t_returned, _ticket_counter, _sessions, _logs>>
    /\ UNCHANGED <<requests_received, pc, exception, localVars>>
    /\ UNCHANGED <<routerVars, actionVars, classifyVars, descriptionVars>>

\* Ids delete_ticket is called with: those of stored tickets, and one that
\* no ticket has.
DeletableIds == {t.ticket_id : t \in _tickets} \cup {TicketId("HR", 1)}

TicketNext ==
    \/ \E department \in TicketDepartments, priority \in TicketPriorities :
            create_ticket(department, priority)
    \/ \E id \in DeletableIds : delete_ticket(id)

SpecTickets == TicketInit /\ [][TicketNext]_vars

(***************************************************************************)
(* ActionAgent._generate_ticket_description called for two turns that      *)
(* differ only in original_message                                         *)
(***************************************************************************)
\* Classifier results with and without PII.
DescriptionQueries ==
    {[q EXCEPT !.pii_detected = pii] : q \in PipelineQueries, pii \in BOOLEAN}

DescriptionInit ==
    /\ RouterIdle
    /\ ActionIdle
    /\ ClassifyIdle
    /\ _sessions = << >>
    /\ _tickets = {}
    /\ _ticket_counter = [code \in DeptCodes |-> 0]
    /\ _logs = << >>
    /\ NoRequests
    /\ t_returned = << >>
    /\ t_deleted = None
    /\ d_query \in DescriptionQueries
    /\ d_message \in Messages
    /\ d_other \in Messages
    /\ d_description = _generate_ticket_description(NoQuery, << >>)
    /\ d_other_description = _generate_ticket_description(NoQuery, << >>)
    /\ d_pc = "input"

\* execute, lines 98-102, on each of the two turns.
CallGenerateDescription ==
    /\ d_pc = "input"
    /\ d_description' = _generate_ticket_description(d_query, d_message)
    /\ d_other_description' = _generate_ticket_description(d_query, d_other)
    /\ d_pc' = "generated"
    /\ UNCHANGED <<d_query, d_message, d_other>>
    /\ UNCHANGED <<routerVars, actionVars, classifyVars, pipeVars, ticketVars>>

DescriptionNext == CallGenerateDescription

SpecDescription == DescriptionInit /\ [][DescriptionNext]_vars

(***************************************************************************)
(* submit_query with requests in flight together, on a store that holds a  *)
(* session already asked twice for clarification                           *)
(***************************************************************************)
\* The stored session after two clarification turns.
AskedTwice ==
    [clarification_attempts |-> max_clarification_attempts - 1,
     conversation_history |-> << >>,
     stored |-> TRUE]

InterleavedInit ==
    /\ RouterIdle
    /\ ActionIdle
    /\ ClassifyIdle
    /\ _sessions = <<AskedTwice>>
    /\ _tickets = {}
    /\ _ticket_counter = [code \in DeptCodes |-> 0]
    /\ _logs = << >>
    /\ NoRequests
    /\ t_returned = << >>
    /\ t_deleted = None
    /\ DescriptionIdle

SpecInterleaved == InterleavedInit /\ [][Next]_vars

(***************************************************************************)
(* Properties of RouterAgent                                               *)
(***************************************************************************)
Routed == r_pc = "routed"

\* No pre-escalation flag and no escalation intent.
NoSignal(q) ==
    /\ ~q.requires_escalation
    /\ q.intent \notin ESCALATION_INTENTS

\* C1: every RoutingDecision returned by route has escalate_to_human true
\* if and only if its escalation_reason is not None.
C1_EscalateIffReason ==
    Routed =>
        (r_decision.escalate_to_human <=> r_decision.escalation_reason # None)

C1_Witness ==
    /\ Routed
    /\ r_decision.escalate_to_human
    /\ r_decision.escalation_reason = "max_clarifications_exceeded"

\* C3: a query with confidence >= threshold, no pre-escalation flag and no
\* escalation intent is not escalated, whatever clarification_attempts is.
C3_ConfidentUnflaggedNotEscalated ==
    (Routed /\ r_query.confidence >= confidence_threshold /\ NoSignal(r_query))
        => ~r_decision.escalate_to_human

C3_Witness ==
    /\ Routed
    /\ r_query.confidence = confidence_threshold
    /\ NoSignal(r_query)
    /\ r_attempts >= max_clarification_attempts
    /\ ~r_decision.escalate_to_human

\* C4: an escalated decision is addressed to ESCALATE_TO_HUMAN, whatever
\* the suggestion and the category table give.
C4_EscalatedDepartment ==
    (Routed /\ r_decision.escalate_to_human)
        => r_decision.department = "ESCALATE_TO_HUMAN"

C4_Witness ==
    /\ Routed
    /\ r_decision.escalate_to_human
    /\ r_query.department_suggestion = "HR"
    /\ CATEGORY_TO_DEPARTMENT[r_query.intent_category] = "REGISTRAR"
    /\ r_decision.department = "ESCALATE_TO_HUMAN"

\* C5: for a low-confidence query with no flag and no escalation intent,
\* route does not escalate below max_clarification_attempts, escalates with
\* MAX_CLARIFICATIONS_EXCEEDED from max_clarification_attempts on, and once
\* it escalated at some attempts it escalates at every larger attempts.
C5_MaxClarificationsMonotone ==
    (Routed /\ r_query.confidence < confidence_threshold /\ NoSignal(r_query))
        => /\ r_attempts < max_clarification_attempts
                => /\ ~r_decision.escalate_to_human
                   /\ r_decision.escalation_reason = None
           /\ r_attempts >= max_clarification_attempts
                => /\ r_decision.escalate_to_human
                   /\ r_decision.escalation_reason
                        = "max_clarifications_exceeded"
           /\ (r_previous # NoDecision /\ r_previous.escalate_to_human)
                => r_decision.escalate_to_human

C5_Witness ==
    /\ Routed
    /\ r_query.confidence < confidence_threshold
    /\ NoSignal(r_query)
    /\ r_attempts > max_clarification_attempts
    /\ r_previous.escalate_to_human
    /\ r_decision.escalation_reason = "max_clarifications_exceeded"

\* C6: needs_clarification is true exactly when attempts < max, the query
\* is not flagged and its confidence is below the threshold; a confidence
\* on the threshold never asks, and a 0.45 unflagged query asks at
\* attempts 0, 1, 2 and not at 3.
C6_NeedsClarificationIff ==
    r_pc \in {"gated", "routed"} =>
        /\ r_needs = (/\ r_attempts < max_clarification_attempts
                      /\ ~r_query.requires_escalation
                      /\ r_query.confidence < confidence_threshold)
        /\ r_query.confidence = 70 => r_needs = FALSE
        /\ (r_query.confidence = 45 /\ ~r_query.requires_escalation)
                => (r_needs <=> r_attempts \in {0, 1, 2})

C6_Witness ==
    /\ r_pc = "gated"
    /\ r_query.confidence = 70
    /\ ~r_query.requires_escalation
    /\ r_attempts = 0
    /\ r_needs = FALSE

(***************************************************************************)
(* Properties of ActionAgent._should_create_ticket                         *)
(***************************************************************************)
\* C7: _should_create_ticket is true for every escalated decision and for
\* every HIGH or URGENT one, whatever the articles; otherwise it is false
\* exactly when the first article's relevance_score is >= 0.5.
C7_ShouldCreateTicket ==
    a_pc = "decided" =>
        /\ a_decision.escalate_to_human => a_should = TRUE
        /\ a_decision.priority \in {"HIGH", "URGENT"} => a_should = TRUE
        /\ (/\ ~a_decision.escalate_to_human
            /\ a_decision.priority \notin {"HIGH", "URGENT"})
                => (a_should = FALSE
                        <=> /\ Len(a_articles) > 0
                            /\ a_articles[1].relevance_score >= 50)

C7_Witness ==
    /\ a_pc = "decided"
    /\ a_decision.priority = "LOW"
    /\ ~a_decision.escalate_to_human
    /\ a_articles = <<Article(50)>>
    /\ a_should = FALSE

\* C17: the SLA of every decision is positive and given by its priority
\* alone: URGENT 1, HIGH 4, MEDIUM 24, LOW 72; decisions of one query with
\* different attempts and the same priority have the same SLA.
C17_SlaByPriority ==
    Routed =>
        /\ r_decision.suggested_sla_hours > 0
        /\ r_decision.priority = "URGENT" => r_decision.suggested_sla_hours = 1
        /\ r_decision.priority = "HIGH" => r_decision.suggested_sla_hours = 4
        /\ r_decision.priority = "MEDIUM"
                => r_decision.suggested_sla_hours = 24
        /\ r_decision.priority = "LOW" => r_decision.suggested_sla_hours = 72
        /\ (r_previous # NoDecision
                /\ r_previous.priority = r_decision.priority)
                => r_previous.suggested_sla_hours
                        = r_decision.suggested_sla_hours

\* A HIGH decision that became an escalation when the attempts ran out,
\* at 4 hours before and after.
C17_Witness ==
    /\ Routed
    /\ r_decision.priority = "HIGH"
    /\ r_decision.escalate_to_human
    /\ r_decision.department = "ESCALATE_TO_HUMAN"
    /\ r_decision.suggested_sla_hours = 4
    /\ r_previous # NoDecision
    /\ ~r_previous.escalate_to_human
    /\ r_previous.suggested_sla_hours = 4

\* C18: routing a query again on the same agent with the attempts of an
\* earlier call returns the decision of that call, rules included, whatever
\* calls of route and needs_clarification came between; and no call changes
\* what the agent's methods read through self.
C18_RouteRepeatable ==
    /\ r_pc = "repeated" => r_repeat = r_previous
    /\ r_self = RouterAgent(Settings)

\* The decision for 2 attempts is returned again after the calls for 3
\* attempts gave another one.
C18_Witness ==
    /\ r_pc = "repeated"
    /\ r_attempts = 3
    /\ r_decision.escalation_reason = "max_clarifications_exceeded"
    /\ ~r_previous.escalate_to_human
    /\ r_repeat = r_previous
    /\ r_repeat.routing_rules_applied # << >>
    /\ r_self = RouterAgent(Settings)

\* C20: an unflagged query whose intent is in ESCALATION_INTENTS is
\* escalated for every confidence and every attempts, with reason
\* user_requested_human for request_human and speak_to_person and
\* policy_keyword_detected for the other four.
C20_EscalationIntentReason ==
    (/\ Routed
     /\ r_query.intent \in ESCALATION_INTENTS
     /\ ~r_query.requires_escalation)
        => /\ r_decision.escalate_to_human
           /\ r_decision.escalation_reason =
                IF r_query.intent \in {"request_human", "speak_to_person"}
                    THEN "user_requested_human"
                    ELSE "policy_keyword_detected"
           /\ r_decision.escalation_reason # "max_clarifications_exceeded"

\* A low-confidence refund request with the attempts used up: escalated for
\* the policy reason.
C20_Witness ==
    /\ Routed
    /\ r_query.intent = "refund_request"
    /\ ~r_query.requires_escalation
    /\ r_query.confidence = 45
    /\ r_attempts >= max_clarification_attempts
    /\ r_decision.escalate_to_human
    /\ r_decision.escalation_reason = "policy_keyword_detected"

\* C21: the priority is given by the first matching rule: flag -> URGENT;
\* sentiment FRUSTRATED or URGENT -> HIGH; urgency terms -> HIGH;
\* confidence >= threshold -> MEDIUM; GENERAL_INQUIRY -> LOW; else MEDIUM.
\* LOW comes only for an unflagged, calm, no-urgency, below-threshold
\* GENERAL_INQUIRY query, and the priority is the same for every attempts
\* and escalation outcome.
C21_PriorityRules ==
    Routed =>
        /\ r_decision.priority =
            IF r_query.requires_escalation THEN "URGENT"
            ELSE IF r_query.sentiment \in {"FRUSTRATED", "URGENT"} THEN "HIGH"
            ELSE IF r_query.urgency_indicators # {} THEN "HIGH"
            ELSE IF r_query.confidence >= 70 THEN "MEDIUM"
            ELSE IF r_query.intent_category = "GENERAL_INQUIRY" THEN "LOW"
            ELSE "MEDIUM"
        /\ r_decision.priority = "LOW" =>
            /\ ~r_query.requires_escalation
            /\ r_query.sentiment \in {"NEUTRAL", "SATISFIED"}
            /\ r_query.urgency_indicators = {}
            /\ r_query.confidence < 70
            /\ r_query.intent_category = "GENERAL_INQUIRY"
        /\ r_previous # NoDecision => r_previous.priority = r_decision.priority

\* A frustrated, confident query is HIGH, and stays HIGH when routed with
\* more attempts.
C21_Witness ==
    /\ Routed
    /\ ~r_query.requires_escalation
    /\ r_query.sentiment = "FRUSTRATED"
    /\ r_query.confidence = 92
    /\ r_decision.priority = "HIGH"
    /\ r_previous # NoDecision
    /\ r_previous.priority = "HIGH"

\* C22: a flagged query is escalated, URGENT, sent to ESCALATE_TO_HUMAN,
\* with reason user_requested_human for HUMAN_REQUEST,
\* policy_keyword_detected for POLICY_EXCEPTION and sensitive_topic for
\* every other category.
C22_FlaggedQuery ==
    (Routed /\ r_query.requires_escalation) =>
        /\ r_decision.escalate_to_human
        /\ r_decision.priority = "URGENT"
        /\ r_decision.department = "ESCALATE_TO_HUMAN"
        /\ r_decision.escalation_reason =
            IF r_query.intent_category = "HUMAN_REQUEST"
                THEN "user_requested_human"
            ELSE IF r_query.intent_category = "POLICY_EXCEPTION"
                THEN "policy_keyword_detected"
            ELSE "sensitive_topic"

\* "I want to appeal my grade", frustrated and of low confidence.
C22_Witness ==
    /\ Routed
    /\ r_query.requires_escalation
    /\ r_query.intent = "grade_appeal"
    /\ r_query.intent_category = "POLICY_EXCEPTION"
    /\ r_query.sentiment = "FRUSTRATED"
    /\ r_query.confidence = 45
    /\ r_decision.escalation_reason = "policy_keyword_detected"
    /\ r_decision.priority = "URGENT"

\* C23: a decision that does not escalate goes to the department of the
\* query's category, and the same query with any other department
\* suggestion gets the same department, priority, escalation and SLA.
C23_DepartmentFromCategory ==
    (Routed /\ ~r_decision.escalate_to_human) =>
        /\ r_decision.department
                = CATEGORY_TO_DEPARTMENT[r_query.intent_category]
        /\ \A d \in Department :
            LET other == route(router_agent, [r_query EXCEPT !.department_suggestion = d],
                               r_attempts)
            IN  /\ other.department = r_decision.department
                /\ other.priority = r_decision.priority
                /\ other.escalate_to_human = r_decision.escalate_to_human
                /\ other.suggested_sla_hours = r_decision.suggested_sla_hours

\* "I forgot my password" with a wrong suggestion: IT, MEDIUM, 24 hours.
C23_Witness ==
    /\ Routed
    /\ r_query.intent = "password_reset"
    /\ r_query.intent_category = "ACCOUNT_ACCESS"
    /\ r_query.department_suggestion = "REGISTRAR"
    /\ r_query.confidence = 92
    /\ r_query.sentiment = "NEUTRAL"
    /\ r_decision.department = "IT"
    /\ r_decision.priority = "MEDIUM"
    /\ ~r_decision.escalate_to_human
    /\ r_decision.suggested_sla_hours = 24

\* C27: for the same query and attempts, a decision that does not escalate
\* a query below the threshold comes with a gate that asks; so a decision
\* taken when the gate does not ask either escalates or has confidence at
\* or above the threshold, and is LOW only when it escalates.
C27_GateMatchesRouter ==
    Routed =>
        /\ (~r_decision.escalate_to_human /\ r_query.confidence < 70)
                => r_needs = TRUE
        /\ (r_needs = FALSE /\ ~r_decision.escalate_to_human)
                => r_query.confidence >= 70
        /\ (r_needs = FALSE /\ r_decision.priority = "LOW")
                => r_decision.escalate_to_human

\* A LOW decision that the gate lets through: the attempts are used up and
\* it escalates.
C27_Witness ==
    /\ Routed
    /\ r_needs = FALSE
    /\ r_decision.priority = "LOW"
    /\ r_decision.escalate_to_human
    /\ r_decision.escalation_reason = "max_clarifications_exceeded"
    /\ r_attempts = 3

\* C28: a decision is addressed to ESCALATE_TO_HUMAN only when it escalates.
C28_HumanQueueOnlyEscalated ==
    (Routed /\ r_decision.department = "ESCALATE_TO_HUMAN")
        => r_decision.escalate_to_human

\* A confident, unflagged question of category HUMAN_REQUEST: sent to
\* ESCALATE_TO_HUMAN by the category table without being escalated.
C28_UnescalatedHumanQueue ==
    /\ Routed
    /\ r_query.intent = "general_question"
    /\ r_query.intent_category = "HUMAN_REQUEST"
    /\ ~r_query.requires_escalation
    /\ r_query.confidence = 92
    /\ r_decision.department = "ESCALATE_TO_HUMAN"
    /\ ~r_decision.escalate_to_human
    /\ r_decision.escalation_reason = None

\* C29: an escalated query with intent grade_appeal, withdrawal_request,
\* waiver_request or refund_request has reason policy_keyword_detected, and
\* one with request_human or speak_to_person has user_requested_human,
\* flagged or not, for every category.
C29_ReasonIgnoresFlag ==
    (/\ Routed
     /\ r_decision.escalate_to_human
     /\ r_query.intent \in ESCALATION_INTENTS)
        => r_decision.escalation_reason =
                IF r_query.intent \in {"request_human", "speak_to_person"}
                    THEN "user_requested_human"
                    ELSE "policy_keyword_detected"

\* A flagged refund request of category FINANCIAL: the reason is
\* sensitive_topic.
C29_FlaggedRefundReason ==
    /\ Routed
    /\ r_query.intent = "refund_request"
    /\ r_query.intent_category = "FINANCIAL"
    /\ r_query.requires_escalation
    /\ r_decision.escalate_to_human
    /\ r_decision.escalation_reason = "sensitive_topic"

(***************************************************************************)
(* Properties of ActionAgent.execute                                       *)
(***************************************************************************)
Executed == a_pc = "executed"

\* The ticket store holds a ticket under the id the result carries.
TicketCreated == \E t \in _tickets : t.ticket_id = a_result.ticket_id

\* C8: in every ActionResult execute returns, status is escalated iff the
\* decision escalates, created iff a ticket was created and the decision does
\* not escalate, kb_only iff no ticket was created, and ticket_id is set iff
\* status is created or escalated.
C8_ExecuteStatus ==
    Executed =>
        /\ a_result.status = "escalated" <=> a_decision.escalate_to_human
        /\ a_result.status = "created"
                <=> (_tickets # {} /\ ~a_decision.escalate_to_human)
        /\ a_result.status = "kb_only" <=> _tickets = {}
        /\ a_result.ticket_id # NoTicketId
                <=> a_result.status \in {"created", "escalated"}
        /\ a_result.ticket_id # NoTicketId <=> TicketCreated

\* Top article score 0.8, priority LOW, no escalation: kb_only, no ticket.
C8_Witness ==
    /\ Executed
    /\ a_decision.priority = "LOW"
    /\ ~a_decision.escalate_to_human
    /\ a_articles = <<Article(80)>>
    /\ a_result.status = "kb_only"
    /\ a_result.ticket_id = NoTicketId
    /\ _tickets = {}

(***************************************************************************)
(* Properties of submit_query                                              *)
(***************************************************************************)
\* The request ended as a routed turn: not a clarification, no exception.
RoutedTurn(r) ==
    /\ pc[r] = "done"
    /\ response[r].status # "pending_clarification"

\* C9: on every routed turn the escalated flag of the ActionResult, of the
\* ChatResponse, of the appended ConversationTurn and of the audit entry
\* equals the decision's escalate_to_human, the turn and the entry are in the
\* session history and the audit log, and the response carries an escalation
\* reason iff it is escalated.
C9_EscalatedEverywhere ==
    \A r \in Requests :
        RoutedTurn(r) =>
            /\ action_result[r].escalated
                    = routing_decision[r].escalate_to_human
            /\ response[r].escalated = routing_decision[r].escalate_to_human
            /\ turn[r].escalated = routing_decision[r].escalate_to_human
            /\ audit_entry[r].escalated
                    = routing_decision[r].escalate_to_human
            /\ \E i \in DOMAIN _sessions[session[r]].conversation_history :
                    _sessions[session[r]].conversation_history[i] = turn[r]
            /\ \E i \in DOMAIN _logs : _logs[i] = audit_entry[r]
            /\ response[r].escalation_reason # None <=> response[r].escalated

\* Two routed turns, one escalated with its reason and one not.
C9_Witness ==
    \E r1, r2 \in Requests :
        /\ RoutedTurn(r1)
        /\ response[r1].escalated
        /\ response[r1].escalation_reason = "policy_keyword_detected"
        /\ turn[r1].escalated
        /\ RoutedTurn(r2)
        /\ ~response[r2].escalated
        /\ response[r2].escalation_reason = None
        /\ response[r2].status = "created"

\* C10: a turn whose create_ticket call failed ends with an outcome of
\* status error and no ticket id.
C10_TicketFailureGivesErrorStatus ==
    \A r \in Requests :
        (pc[r] = "raised" /\ exception[r] = "TicketCreationError")
            => /\ response[r].kind = "chat_response"
               /\ response[r].status = "error"
               /\ response[r].ticket_id = NoTicketId

\* A turn whose create_ticket call failed: the exception has left
\* submit_query, nothing is stored for the turn and nothing is answered.
C10_FailedTurn ==
    \E r \in Requests :
        /\ pc[r] = "raised"
        /\ exception[r] = "TicketCreationError"
        /\ response[r] = ServerError
        /\ action_result[r] = NoResult
        /\ _sessions[session[r]].conversation_history = << >>
        /\ _logs = << >>

\* C11: a knowledge search that fails does not fail the turn: the turn goes
\* on with no articles and ends created, escalated or kb_only.
C11_SearchFailureDegrades ==
    \A r \in Requests :
        exception[r] = "KnowledgeSearchError"
            => /\ pc[r] # "raised"
               /\ knowledge_articles[r] = << >>
               /\ pc[r] = "done"
                    => response[r].status \in {"created", "escalated", "kb_only"}

\* A turn whose knowledge search failed: the exception has left
\* submit_query before any ticket decision was taken.
C11_FailedSearchTurn ==
    \E r \in Requests :
        /\ pc[r] = "raised"
        /\ exception[r] = "KnowledgeSearchError"
        /\ response[r] = ServerError
        /\ status[r] = None
        /\ _tickets = {}

\* C14: a turn that fails before the pipeline completes leaves the session
\* store as it was before the turn; for the first request of a run, empty.
C14_FailedTurnLeavesStore ==
    (requests_received = 1 /\ \E r \in Requests : pc[r] = "raised")
        => _sessions = << >>

\* The first request of a run, without a session id, failed at ticket
\* creation, and the session made for it is in the store.
C14_FailedTurnKeepsNewSession ==
    /\ requests_received = 1
    /\ \E r \in Requests :
        /\ pc[r] = "raised"
        /\ exception[r] = "TicketCreationError"
        /\ session[r] = 1
    /\ _sessions = <<NewSession>>

(***************************************************************************)
(* Properties of the session under turn-by-turn calls                      *)
(***************************************************************************)
ClarificationStep(r) == pc[r] = "clarify" /\ pc'[r] = "done"
RoutedStep(r) == pc[r] = "respond" /\ pc'[r] = "done"

\* C12: under turn-by-turn calls every stored session keeps
\* 0 <= clarification_attempts <= max_clarification_attempts, each
\* clarification turn adds exactly 1 to it and each routed turn sets it to 0.
C12_AttemptsBoundedAndStepped ==
    /\ [](\A i \in DOMAIN _sessions :
            /\ _sessions[i].clarification_attempts >= 0
            /\ _sessions[i].clarification_attempts
                    <= max_clarification_attempts)
    /\ [][\A r \in Requests :
            /\ ClarificationStep(r) =>
                    _sessions'[session[r]].clarification_attempts
                        = _sessions[session[r]].clarification_attempts + 1
            /\ RoutedStep(r) =>
                    _sessions'[session[r]].clarification_attempts = 0]_vars

\* A session that has reached max_clarification_attempts by three
\* clarification turns, and another that was reset by a routed turn.
C12_Witness ==
    /\ requests_received = MaxSerialTurns
    /\ \E i \in DOMAIN _sessions :
            _sessions[i].clarification_attempts = max_clarification_attempts
    /\ \E r \in Requests :
            /\ pc[r] = "done"
            /\ response[r].status = "created"
            /\ _sessions[session[r]].clarification_attempts = 0

\* The request ended as a clarification turn.
ClarificationTurn(r) ==
    /\ pc[r] = "done"
    /\ response[r].status = "pending_clarification"

\* C19: a clarification turn answers pending_clarification with no ticket,
\* no articles and escalated false, has searched nothing and created
\* nothing, and the step that ends it changes neither the ticket store nor
\* the audit log nor any history: it adds 1 to the session's attempts and
\* nothing else.
C19_ClarificationTurnFrame ==
    /\ [](\A r \in Requests :
            ClarificationTurn(r) =>
                /\ response[r].kind = "chat_response"
                /\ response[r].ticket_id = NoTicketId
                /\ response[r].knowledge_articles = << >>
                /\ ~response[r].escalated
                /\ response[r].escalation_reason = None
                /\ knowledge_articles[r] = << >>
                /\ ticket_id[r] = NoTicketId
                /\ status[r] = None
                /\ action_result[r] = NoResult)
    /\ [][\A r \in Requests :
            ClarificationStep(r) =>
                /\ _tickets' = _tickets
                /\ _ticket_counter' = _ticket_counter
                /\ _logs' = _logs
                /\ Len(_sessions') = Len(_sessions)
                /\ \A i \in DOMAIN _sessions :
                    /\ _sessions'[i].conversation_history
                            = _sessions[i].conversation_history
                    /\ _sessions'[i].clarification_attempts =
                            IF i = session[r]
                                THEN _sessions[i].clarification_attempts + 1
                                ELSE _sessions[i].clarification_attempts]_vars

\* A clarification turn on a session that already has a routed turn and a
\* ticket: both are still there, and the attempts are 1.
C19_Witness ==
    \E r \in Requests :
        /\ ClarificationTurn(r)
        /\ _sessions[session[r]].clarification_attempts = 1
        /\ Len(_sessions[session[r]].conversation_history) = 1
        /\ _tickets # {}

\* C13: the stored conversation_history never holds more than
\* max_conversation_turns turns.
C13_HistoryBounded ==
    \A i \in DOMAIN _sessions :
        Len(_sessions[i].conversation_history) <= max_conversation_turns

\* Two more routed turns on the long session: its history holds 51 turns,
\* the first of them still the oldest one.
C13_HistoryOverflows ==
    /\ Len(_sessions[1].conversation_history) = max_conversation_turns + 1
    /\ _sessions[1].conversation_history[1].turn_number = 1
    /\ _sessions[1].conversation_history[max_conversation_turns + 1].turn_number
            = max_conversation_turns + 1

\* C24: a message whose intent is in ESCALATION_INTENTS is never asked for
\* clarification; its turn is routed and escalated.
C24_EscalationIntentNeverClarified ==
    \A r \in Requests :
        query_result[r].intent \in ESCALATION_INTENTS =>
            /\ pc[r] # "clarify"
            /\ ~ClarificationTurn(r)
            /\ pc[r] \in {"search", "create_ticket", "respond", "done"}
                    => routing_decision[r].escalate_to_human

\* "Can I get a refund?" classified refund_request with confidence 0.55 and
\* no flag, first message of a session: answered with a clarification
\* request, no decision taken, no ticket.
C24_RefundAskedToClarify ==
    \E r \in Requests :
        /\ ClarificationTurn(r)
        /\ query_result[r].intent = "refund_request"
        /\ query_result[r].confidence = 55
        /\ routing_decision[r] = NoDecision
        /\ _sessions[session[r]].clarification_attempts = 1
        /\ _tickets = {}

\* The attempts of the session of request r.
Attempts(r) == _sessions[session[r]].clarification_attempts

\* C25: a session never has more than max_clarification_attempts
\* clarification turns in a row; once it has that many, the next message is
\* routed, and when its confidence is below the threshold the turn escalates
\* (for max_clarifications_exceeded when the query has no other signal) and
\* ends with a ticket.
C25_ClarificationsEnd ==
    /\ [](\A i \in DOMAIN _sessions :
            _sessions[i].clarification_attempts
                <= max_clarification_attempts)
    /\ [][\A r \in Requests :
            /\ (/\ pc[r] = "analyze"
                /\ pc'[r] # "analyze"
                /\ Attempts(r) = max_clarification_attempts)
                => /\ pc'[r] = "search"
                   /\ query_result'[r].confidence < confidence_threshold
                        => routing_decision'[r].escalate_to_human
                   /\ (/\ query_result'[r].confidence < confidence_threshold
                       /\ NoSignal(query_result'[r]))
                        => routing_decision'[r].escalation_reason
                                = "max_clarifications_exceeded"
            /\ (/\ RoutedStep(r)
                /\ Attempts(r) = max_clarification_attempts
                /\ query_result[r].confidence < confidence_threshold)
                => /\ response'[r].status = "escalated"
                   /\ response'[r].escalated
                   /\ response'[r].ticket_id # NoTicketId
                   /\ \E t \in _tickets' :
                        t.ticket_id = response'[r].ticket_id]_vars

\* The fourth vague message of a session, after three clarification turns:
\* escalated for max_clarifications_exceeded, with a ticket, although an
\* article was found.
C25_Witness ==
    \E r \in Requests :
        /\ requests_received = 4
        /\ RoutedTurn(r)
        /\ query_result[r].intent = "general_question"
        /\ query_result[r].confidence = 45
        /\ knowledge_articles[r] # << >>
        /\ response[r].status = "escalated"
        /\ response[r].escalation_reason = "max_clarifications_exceeded"
        /\ \E t \in _tickets : t.ticket_id = response[r].ticket_id
        /\ Len(_sessions[session[r]].conversation_history) = 1

\* C26: with requests of one session interleaved, the stored attempts never
\* exceed max_clarification_attempts, and the routed turns of a session are
\* all in its history, once each, with distinct turn numbers.
C26_InterleavedSessionSafe ==
    /\ \A i \in DOMAIN _sessions :
        /\ _sessions[i].clarification_attempts <= max_clarification_attempts
        /\ \A j, k \in DOMAIN _sessions[i].conversation_history :
            _sessions[i].conversation_history[j].turn_number
                = _sessions[i].conversation_history[k].turn_number
                    => j = k
    /\ \A r \in Requests :
        RoutedTurn(r) =>
            \E j \in DOMAIN _sessions[session[r]].conversation_history :
                _sessions[session[r]].conversation_history[j] = turn[r]

\* Two vague messages sent together on the session asked twice: both pass
\* the gate at 2 attempts, both are answered with a clarification request,
\* and the session is left with 4 attempts.
C26_AttemptsExceedMax ==
    /\ \A r \in Requests : ClarificationTurn(r) /\ session[r] = 1
    /\ _sessions[1].clarification_attempts = max_clarification_attempts + 1

(***************************************************************************)
(* Properties of MockTicketService                                         *)
(***************************************************************************)
\* C15: every ticket id create_ticket returns has the form
\* TKT-<2 or 3 upper-case letters>-<8 digits>-<exactly 4 digits>.
C15_TicketIdFormat ==
    \A i \in DOMAIN t_returned : validate_ticket_id(t_returned[i])

\* The ticket after number 9999 of a department: its sequence number is
\* printed in five digits.
C15_FiveDigitId ==
    \E i \in DOMAIN t_returned :
        /\ t_returned[i] = TicketId("ESC", MAX_FOUR_DIGITS + 1)
        /\ ~validate_ticket_id(t_returned[i])
        /\ \E t \in _tickets : t.ticket_id = t_returned[i]

(***************************************************************************)
(* Properties of ActionAgent._generate_ticket_description                  *)
(***************************************************************************)
\* prefix is the beginning of text.
IsPrefixOf(prefix, text) ==
    \/ prefix = << >>
    \/ /\ Len(prefix) <= Len(text)
       /\ \A i \in 1..(Len(prefix) - 1) : prefix[i] = text[i]
       /\ prefix[Len(prefix)].char = text[Len(prefix)].char
       /\ prefix[Len(prefix)].count <= text[Len(prefix)].count

\* C16: with pii_detected the descriptions of two turns that differ only in
\* the raw message are the same and carry no message; without it the
\* description carries the beginning of the message, 500 characters at most.
C16_DescriptionHidesPii ==
    d_pc = "generated" =>
        /\ d_query.pii_detected =>
            /\ d_description = d_other_description
            /\ ~d_description.has_user_message
            /\ d_description.user_message = << >>
        /\ ~d_query.pii_detected =>
            /\ d_description.has_user_message
            /\ Length(d_description.user_message) <= 500
            /\ IsPrefixOf(d_description.user_message, d_message)
            /\ Length(d_message) <= 500
                    => d_description.user_message = d_message

\* Two different messages with PII give one description.
C16_Witness ==
    /\ d_pc = "generated"
    /\ d_query.pii_detected
    /\ d_message = <<Run("a", 3), Run("b", 1)>>
    /\ d_other = <<Run("a", 500), Run("b", 1)>>
    /\ d_description = d_other_description
    /\ d_description.pii_note

\* A create_ticket call has returned.
CreateStep == Len(t_returned') = Len(t_returned) + 1

\* C30: create_ticket never returns an id it returned before nor the id of
\* a stored ticket, the counters only grow, and delete_ticket leaves them
\* alone.
C30_TicketIdsUnique ==
    /\ [](\A i, j \in DOMAIN t_returned :
            t_returned[i] = t_returned[j] => i = j)
    /\ [][/\ \A code \in DeptCodes :
                _ticket_counter'[code] >= _ticket_counter[code]
          /\ CreateStep =>
                LET id == t_returned'[Len(t_returned')]
                IN  /\ \A t \in _tickets : t.ticket_id # id
                    /\ \A i \in DOMAIN t_returned : t_returned[i] # id
                    /\ \E t \in _tickets' : t.ticket_id = id
                    /\ _ticket_counter'[id.dept_code] = id.seq
                    /\ _ticket_counter'[id.dept_code]
                            = _ticket_counter[id.dept_code] + 1
          /\ ~CreateStep => _ticket_counter' = _ticket_counter]_vars

\* After the samples IT-0001 and IT-0003 were loaded, IT-0004 was created
\* and deleted, and the next IT ticket is IT-0005.
C30_Witness ==
    /\ t_returned = <<TicketId("IT", 4), TicketId("IT", 5)>>
    /\ t_deleted = "true"
    /\ \A t \in _tickets : t.ticket_id # TicketId("IT", 4)
    /\ \E t \in _tickets : t.ticket_id = TicketId("IT", 5)
    /\ \E t \in _tickets : t.ticket_id = TicketId("IT", 3)

(***************************************************************************)
(* Properties of classify_intent                                           *)
(***************************************************************************)
\* The reply was not understood: the call raised, the text is not JSON or
\* not a JSON object, or a key is absent or holds an invalid value.
KeyBad(value) == value \in {Missing, Invalid}
NotUnderstood(reply) ==
    \/ reply.call # "ok"
    \/ reply.content.text.kind # "object"
    \/ LET obj == reply.content.text.object
       IN  \/ KeyBad(obj.intent)
           \/ KeyBad(obj.intent_category)
           \/ KeyBad(obj.department)
           \/ KeyBad(obj.sentiment)
           \/ KeyBad(obj.confidence.kind)
           \/ obj.confidence.number > 100
           \/ KeyBad(obj.requires_escalation)
           \/ KeyBad(obj.entities.kind)
           \/ KeyBad(obj.pii_detected)
           \/ KeyBad(obj.pii_types.kind)
           \/ KeyBad(obj.urgency_indicators.kind)

\* C2: whenever the reply was not understood, classify_intent returns the
\* conservative fallback (GENERAL_INQUIRY, ESCALATE_TO_HUMAN, 0.3,
\* requires_escalation, no entities, NEUTRAL), and the turn is routed as an
\* escalation.
C2_FailureGivesFallback ==
    (c_pc \in {"classified", "routed"} /\ NotUnderstood(c_response))
        => /\ c_result = FallbackQueryResult
           /\ c_pc = "routed"
                => (c_clarify = FALSE /\ c_decision.escalate_to_human)

\* The fallback does come out of the except branch: a reply that is a JSON
\* array, or a call that raised.
C2_FallbackReached ==
    /\ c_pc = "routed"
    /\ c_response.call = "ok"
    /\ c_response.content.text.kind = "array"
    /\ c_result = FallbackQueryResult
    /\ c_decision.escalate_to_human

====
